---------------------------- MODULE Spec2Model ----------------------------
(***************************************************************************)
(* A model of the muxpatterns request router: pattern parsing, the         *)
(* relationship engine, the decision tree, the conflict index and the      *)
(* ServeMux built on them.                                                 *)
(*                                                                         *)
(* Go strings are modelled as sequences of one-character strings, so that  *)
(* byte-level operations (IndexByte, slicing, HasSuffix) are computed as   *)
(* the code computes them.  "" is <<>>.                                    *)
(***************************************************************************)
EXTENDS Integers, Sequences, FiniteSets, TLC

(***************************************************************************)
(* String helpers (Go's strings package, 0-based indices as in Go).        *)
(***************************************************************************)
IndexByte(s, c) ==
    IF \E i \in 1..Len(s) : s[i] = c
    THEN (CHOOSE i \in 1..Len(s) : s[i] = c /\ \A j \in 1..(i - 1) : s[j] # c) - 1
    ELSE -1

\* s[i:] and s[:i] of Go
From(s, i) == SubSeq(s, i + 1, Len(s))
UpTo(s, i) == SubSeq(s, 1, i)

HasSuffix(s, suf) ==
    Len(s) >= Len(suf) /\ SubSeq(s, Len(s) - Len(suf) + 1, Len(s)) = suf

HasPrefix(s, pre) ==
    Len(s) >= Len(pre) /\ SubSeq(s, 1, Len(pre)) = pre

\* strings.Count(s, c) for a one-byte c
Count(s, c) == Cardinality({i \in 1..Len(s) : s[i] = c})

Contains(s, c) == IndexByte(s, c) >= 0

Letters ==
    {"a", "b", "c", "d", "e", "f", "g", "h", "i", "j", "k", "l", "m", "n",
     "o", "p", "q", "r", "s", "t", "u", "v", "w", "x", "y", "z",
     "A", "B", "C", "D", "E", "F", "G", "H", "I", "J", "K", "L", "M", "N",
     "O", "P", "Q", "R", "S", "T", "U", "V", "W", "X", "Y", "Z"}

Digits == {"0", "1", "2", "3", "4", "5", "6", "7", "8", "9"}

GET == <<"G", "E", "T">>
HEAD == <<"H", "E", "A", "D">>
POST == <<"P", "O", "S", "T">>
PUT == <<"P", "U", "T">>
PATCH == <<"P", "A", "T", "C", "H">>
DELETE == <<"D", "E", "L", "E", "T", "E">>
OPTIONS == <<"O", "P", "T", "I", "O", "N", "S">>
TRACE == <<"T", "R", "A", "C", "E">>
CONNECT == <<"C", "O", "N", "N", "E", "C", "T">>

\* Valid HTTP methods.
methods == {GET, HEAD, POST, PUT, PATCH, DELETE, OPTIONS, TRACE}

(***************************************************************************)
(* Path cleaning (server).                                                 *)
(***************************************************************************)
mightNeedCleaning(p) ==
    \E i \in 2..Len(p) : p[i - 1] = "/" /\ (p[i] = "/" \/ p[i] = ".")

\* The elements of a path: the maximal runs of non-slash bytes, in order.
RECURSIVE Elements(_)
Elements(p) ==
    IF Len(p) = 0 THEN <<>>
    ELSE IF Head(p) = "/" THEN Elements(Tail(p))
    ELSE LET i == IndexByte(p, "/")
         IN  IF i < 0 THEN <<p>>
             ELSE <<UpTo(p, i)>> \o Elements(From(p, i))

\* Lexical processing of the elements of a rooted path: "." is dropped and
\* ".." removes the element before it (or nothing at the root).
RECURSIVE Resolve(_, _)
Resolve(elems, out) ==
    IF Len(elems) = 0 THEN out
    ELSE LET e == Head(elems)
         IN  IF e = <<".">> THEN Resolve(Tail(elems), out)
             ELSE IF e = <<".", ".">>
                  THEN Resolve(Tail(elems),
                               IF Len(out) = 0 THEN out ELSE UpTo(out, Len(out) - 1))
                  ELSE Resolve(Tail(elems), Append(out, e))

RECURSIVE JoinRooted(_)
JoinRooted(elems) ==
    IF Len(elems) = 0 THEN <<>>
    ELSE <<"/">> \o Head(elems) \o JoinRooted(Tail(elems))

\* path.Clean on a rooted path (cleanPath only calls it on paths starting with "/").
Clean(p) ==
    LET out == Resolve(Elements(p), <<>>)
    IN  IF Len(out) = 0 THEN <<"/">> ELSE JoinRooted(out)

\* cleanPath, once p starts with "/" and np is path.Clean(p): path.Clean
\* removes the trailing slash except for root; it is put back if necessary.
cleanPathTail(p, np) ==
    IF p[Len(p)] = "/" /\ np # <<"/">>
    THEN IF Len(p) = Len(np) + 1 /\ HasPrefix(p, np)
         THEN p
         ELSE np \o <<"/">>
    ELSE np

cleanPathRooted(p) ==
    IF ~mightNeedCleaning(p) THEN p ELSE cleanPathTail(p, Clean(p))

\* cleanPath returns the canonical path for p, eliminating . and .. elements.
cleanPath(p) ==
    IF p = <<>> THEN <<"/">>
    ELSE cleanPathRooted(IF p[1] # "/" THEN <<"/">> \o p ELSE p)

\* stripHostPort returns h without any trailing ":<port>"; a host that
\* net.SplitHostPort rejects (more than one colon, no brackets) is returned
\* unchanged.
stripHostPort(h) ==
    IF ~Contains(h, ":") THEN h
    ELSE IF Count(h, ":") > 1 THEN h
    ELSE UpTo(h, IndexByte(h, ":"))

(***************************************************************************)
(* Patterns.                                                               *)
(***************************************************************************)
\* The nil *Pattern.
NilPattern == [nil |-> TRUE]

Lit(s) == [s |-> s, wild |-> FALSE, multi |-> FALSE]
Wild(name) == [s |-> name, wild |-> TRUE, multi |-> FALSE]
Multi(name) == [s |-> name, wild |-> TRUE, multi |-> TRUE]

isValidWildcardName(s) ==
    /\ s # <<>>
    /\ \A i \in 1..Len(s) :
          ~(s[i] \notin Letters /\ s[i] # "_" /\ (i = 1 \/ s[i] \notin Digits))

ParseError(msg) == [err |-> msg, pat |-> NilPattern]

SegmentsError(msg) == [err |-> msg, segments |-> <<>>]

\* The segment loop of Parse.  rest is the unparsed path (it is empty or
\* starts with "/"), segs the segments so far, seen the wildcard names so
\* far.  The loop body is split into the operators below it.
RECURSIVE parseSegments(_, _, _)

\* parseNamed without the check of seenNames: a wildcard name may repeat.
parseNamedKeepsDuplicates(multi, name, rest, segs, seen) ==
    IF multi /\ Len(rest) # 0 THEN SegmentsError("{...} wildcard not at end")
    ELSE IF name = <<>> THEN SegmentsError("empty wildcard")
    ELSE IF ~isValidWildcardName(name) THEN SegmentsError("bad wildcard name")
    ELSE parseSegments(rest,
                       Append(segs, [s |-> name, wild |-> TRUE, multi |-> multi]),
                       seen \cup {name})

\* A wildcard "{name}" or "{name...}".
parseNamed(multi, name, rest, segs, seen) ==
    IF multi /\ Len(rest) # 0 THEN SegmentsError("{...} wildcard not at end")
    ELSE IF name = <<>> THEN SegmentsError("empty wildcard")
    ELSE IF ~isValidWildcardName(name) THEN SegmentsError("bad wildcard name")
    ELSE IF name \in seen THEN SegmentsError("duplicate wildcard name")
    ELSE parseSegments(rest,
                       Append(segs, [s |-> name, wild |-> TRUE, multi |-> multi]),
                       seen \cup {name})

\* name is the text between the braces.
parseWildcard(name, rest, segs, seen) ==
    IF name = <<"$">>
    THEN IF Len(rest) # 0 THEN SegmentsError("{$} not at end")
         ELSE [err |-> "", segments |-> Append(segs, Lit(<<"/">>))]
    ELSE IF HasSuffix(name, <<".", ".", ".">>)
    THEN parseNamed(TRUE, UpTo(name, Len(name) - 3), rest, segs, seen)
    ELSE parseNamed(FALSE, name, rest, segs, seen)

\* seg is the text up to the next slash, rest what follows it.
parseSegment(seg, rest, segs, seen) ==
    IF IndexByte(seg, "{") < 0
    THEN \* Literal.
         parseSegments(rest, Append(segs, Lit(seg)), seen)
    ELSE IF IndexByte(seg, "{") # 0
    THEN SegmentsError("bad wildcard segment (must start with '{')")
    ELSE IF seg[Len(seg)] # "}"
    THEN SegmentsError("bad wildcard segment (must end with '}')")
    ELSE parseWildcard(SubSeq(seg, 2, Len(seg) - 1), rest, segs, seen)

\* rest is the path after its leading slash, i the index of its next slash
\* (-1 for none).
parseAfterSlash(rest, i, segs, seen) ==
    IF Len(rest) = 0
    THEN \* Trailing slash.
         [err |-> "", segments |-> Append(segs, Multi(<<>>))]
    ELSE IF i < 0 THEN parseSegment(rest, <<>>, segs, seen)
    ELSE parseSegment(UpTo(rest, i), From(rest, i), segs, seen)

parseSegments(rest, segs, seen) ==
    IF Len(rest) = 0 THEN [err |-> "", segments |-> segs]
    ELSE parseAfterSlash(From(rest, 1), IndexByte(From(rest, 1), "/"), segs, seen)

parseResult(method, host, r) ==
    IF r.err # "" THEN ParseError(r.err)
    ELSE [err |-> "", pat |-> [method |-> method, host |-> host, segments |-> r.segments]]

\* parsePath without the check of the path against cleanPath.
parsePathSkipsCleanCheck(method, host, rest) ==
    IF IndexByte(host, "{") >= 0
    THEN ParseError("host contains '{' (missing initial '/'?")
    ELSE parseResult(method, host, parseSegments(rest, <<>>, {}))

\* rest is the path.
parsePath(method, host, rest) ==
    IF IndexByte(host, "{") >= 0
    THEN ParseError("host contains '{' (missing initial '/'?")
    ELSE IF method # <<>> /\ method # CONNECT /\ rest # cleanPath(rest)
    THEN ParseError("non-CONNECT pattern with unclean path can never match")
    ELSE parseResult(method, host, parseSegments(rest, <<>>, {}))

\* i is the index of the first slash of rest.
parseHost(method, rest, i) ==
    IF i < 0 THEN ParseError("host/path missing /")
    ELSE parsePath(method, UpTo(rest, i), From(rest, i))

parseMethod(method, rest) ==
    IF method # <<>> /\ method \notin methods
    THEN ParseError("bad method")
    ELSE parseHost(method, rest, IndexByte(rest, "/"))

\* sp is the index of the first space of s (strings.Cut).
parseCut(s, sp) ==
    IF sp >= 0 THEN parseMethod(UpTo(s, sp), From(s, sp + 1))
    ELSE parseMethod(<<>>, s)

\* Parse parses a string into a Pattern: [METHOD] [HOST]/[PATH].
Parse(s) ==
    IF Len(s) = 0 THEN ParseError("empty pattern")
    ELSE parseCut(s, IndexByte(s, " "))

\* lastSegment returns the last segment of p.
lastSegment(p) == p.segments[Len(p.segments)]

\* segment.String
segmentString(s) ==
    IF s.multi /\ s.s = <<>> THEN \* Trailing slash.
         <<"/">>
    ELSE IF s.multi THEN <<"/", "{">> \o s.s \o <<".", ".", ".", "}">>
    ELSE IF s.wild THEN <<"/", "{">> \o s.s \o <<"}">>
    ELSE IF s.s = <<"/">> THEN <<"/", "{", "$", "}">>
    ELSE \* Literal.
         <<"/">> \o s.s

\* The loop of Pattern.String over the segments.
RECURSIVE segmentsString(_)
segmentsString(segs) ==
    IF segs = <<>> THEN <<>>
    ELSE segmentString(Head(segs)) \o segmentsString(Tail(segs))

\* Pattern.String
String(p) ==
    (IF p.method # <<>> THEN p.method \o <<" ">> ELSE <<>>)
        \o p.host \o segmentsString(p.segments)

(***************************************************************************)
(* Relationship engine.                                                    *)
(***************************************************************************)
compareMethods(p1, p2) ==
    IF p1.method = p2.method THEN "equivalent"
    ELSE IF p1.method = <<>> THEN "moreGeneral"
    ELSE IF p2.method = <<>> THEN "moreSpecific"
    ELSE "disjoint"

\* The loop of comparePaths over the corresponding segments, and the
\* decision at its end.  w12: a single wildcard of p1 matched a literal of
\* p2 (wild1MatchedLit2); w21: the converse (wild2MatchedLit1).
RECURSIVE comparePathsLoop(_, _, _, _)
comparePathsLoop(segs1, segs2, w12, w21) ==
    IF Len(segs1) > 0 /\ Len(segs2) > 0
    THEN LET s1 == Head(segs1)
             s2 == Head(segs2)
         IN  IF s1.multi /\ s2.multi
             THEN comparePathsLoop(Tail(segs1), Tail(segs2), w12, w21)
             ELSE IF s1.multi
             THEN (IF ~w21 THEN "moreGeneral" ELSE "overlaps")
             ELSE IF s2.multi
             THEN (IF ~w12 THEN "moreSpecific" ELSE "overlaps")
             ELSE IF s1.s = <<"/">> /\ s2.s = <<"/">>
             THEN comparePathsLoop(Tail(segs1), Tail(segs2), w12, w21)
             ELSE IF s1.s = <<"/">> \/ s2.s = <<"/">>
             THEN "disjoint"
             ELSE IF s1.wild /\ s2.wild
             THEN comparePathsLoop(Tail(segs1), Tail(segs2), w12, w21)
             ELSE IF s1.wild
             THEN comparePathsLoop(Tail(segs1), Tail(segs2), TRUE, w21)
             ELSE IF s2.wild
             THEN comparePathsLoop(Tail(segs1), Tail(segs2), w12, TRUE)
             ELSE IF s1.s # s2.s
             THEN "disjoint"
             ELSE comparePathsLoop(Tail(segs1), Tail(segs2), w12, w21)
    ELSE IF Len(segs1) = 0 /\ Len(segs2) = 0
    THEN (IF w12 /\ ~w21 THEN "moreGeneral"
          ELSE IF w21 /\ ~w12 THEN "moreSpecific"
          ELSE IF ~w12 /\ ~w21 THEN "equivalent"
          ELSE "overlaps")
    ELSE "disjoint"

\* comparePaths with the test of wild1MatchedLit2 forgotten where p2 reaches
\* its multi wildcard first: the multi is taken to make p1 more specific
\* although a wildcard of p1 has matched a literal of p2.
comparePathsForgetsFlag(p1, p2) ==
    IF /\ comparePathsLoop(p1.segments, p2.segments, FALSE, FALSE) = "overlaps"
       /\ p2.segments[Len(p2.segments)].multi
       /\ ~p1.segments[Len(p1.segments)].multi
    THEN "moreSpecific"
    ELSE comparePathsLoop(p1.segments, p2.segments, FALSE, FALSE)

comparePaths(p1, p2) == comparePathsLoop(p1.segments, p2.segments, FALSE, FALSE)

\* combineRelationships with one case forgotten: a more general method with
\* a more specific path is taken to be more specific instead of overlapping.
combineRelationshipsForgetsOverlap(methodRel, pathRel) ==
    IF methodRel = "equivalent" THEN pathRel
    ELSE IF methodRel = "moreGeneral"
    THEN (IF pathRel = "equivalent" THEN "moreGeneral" ELSE pathRel)
    ELSE IF methodRel = "moreSpecific"
    THEN (IF pathRel = "equivalent" THEN "moreSpecific"
          ELSE IF pathRel = "moreGeneral" THEN "overlaps"
          ELSE pathRel)
    ELSE "disjoint"

combineRelationships(methodRel, pathRel) ==
    IF methodRel = "equivalent" THEN pathRel
    ELSE IF methodRel = "moreGeneral"
    THEN (IF pathRel = "equivalent" THEN "moreGeneral"
          ELSE IF pathRel = "moreSpecific" THEN "overlaps"
          ELSE pathRel)
    ELSE IF methodRel = "moreSpecific"
    THEN (IF pathRel = "equivalent" THEN "moreSpecific"
          ELSE IF pathRel = "moreGeneral" THEN "overlaps"
          ELSE pathRel)
    ELSE "disjoint"

comparePathsAndMethods(p1, p2) ==
    LET mr == compareMethods(p1, p2)
    IN  IF mr = "disjoint" THEN "disjoint"
        ELSE combineRelationships(mr, comparePaths(p1, p2))

\* HigherPrecedence reports whether p1 has higher precedence than p2.
HigherPrecedence(p1, p2) ==
    IF (p1.host = <<>>) # (p2.host = <<>>)
    THEN p1.host # <<>>
    ELSE comparePathsAndMethods(p1, p2) = "moreSpecific"

\* ConflictsWith without the comparison of the hosts.
ConflictsWithIgnoresHost(p1, p2) ==
    comparePathsAndMethods(p1, p2) \in {"equivalent", "overlaps"}

\* ConflictsWith reports whether p1 conflicts with p2.
ConflictsWith(p1, p2) ==
    IF p1.host # p2.host THEN FALSE
    ELSE LET rel == comparePathsAndMethods(p1, p2)
         IN  rel = "equivalent" \/ rel = "overlaps"

(***************************************************************************)
(* Witness paths of the relationship diagnostics.                          *)
(***************************************************************************)
\* writeSegment: a slash, then the text of the segment unless it is a multi
\* wildcard or {$}; for a single wildcard the text is its name.
writeSegment(s) ==
    <<"/">> \o (IF ~s.multi /\ s.s # <<"/">> THEN s.s ELSE <<>>)

\* writeMatchingPath writes a path that matches the segments.
RECURSIVE writeMatchingPath(_)
writeMatchingPath(segs) ==
    IF Len(segs) = 0 THEN <<>>
    ELSE writeSegment(Head(segs)) \o writeMatchingPath(Tail(segs))

\* The loop of commonPath and what follows it.
RECURSIVE commonPathLoop(_, _)
commonPathLoop(segs1, segs2) ==
    IF Len(segs1) > 0 /\ Len(segs2) > 0
    THEN writeSegment(IF Head(segs1).wild THEN Head(segs2) ELSE Head(segs1))
         \o commonPathLoop(Tail(segs1), Tail(segs2))
    ELSE IF Len(segs1) > 0 THEN writeMatchingPath(segs1)
    ELSE IF Len(segs2) > 0 THEN writeMatchingPath(segs2)
    ELSE <<>>

\* commonPath returns a path that both p1 and p2 match; it assumes there is
\* such a path.
commonPath(p1, p2) == commonPathLoop(p1.segments, p2.segments)

PathResult(path, pan) == [path |-> path, panic |-> pan]

\* The loop of differencePath and what follows it; b is the path written so
\* far.
RECURSIVE differencePathLoop(_, _, _)

\* One round of the loop: s1 and s2 are the first segments, neither of them
\* a multi wildcard where s1 is one.
differencePathSegment(s1, s2, rest1, rest2, b) ==
    IF s2.multi THEN differencePathLoop(rest1, rest2, b \o writeSegment(s1))
    ELSE IF s1.wild /\ s2.wild
    THEN \* Both patterns will match whatever we put here; use the first
         \* wildcard name.
         differencePathLoop(rest1, rest2, b \o writeSegment(s1))
    ELSE IF s1.wild /\ ~s2.wild
    THEN \* Any segment other than s2.s will work.
         IF s1.s # s2.s
         THEN differencePathLoop(rest1, rest2, b \o writeSegment(s1))
         ELSE differencePathLoop(rest1, rest2, b \o <<"/">> \o s2.s \o <<"x">>)
    ELSE IF ~s1.wild /\ s2.wild
    THEN differencePathLoop(rest1, rest2, b \o writeSegment(s1))
    ELSE IF s1.s # s2.s THEN PathResult(b, "literals differ")
    ELSE differencePathLoop(rest1, rest2, b \o writeSegment(s1))

\* One round of the loop where s1 is a multi wildcard.
differencePathMulti(s1, s2, b) ==
    IF s2.multi
    THEN \* From here the patterns match the same paths.
         PathResult(b \o <<"/">>, "")
    ELSE IF s2.s = <<"/">>
    THEN PathResult(b \o <<"/">> \o (IF s1.s # <<>> THEN s1.s ELSE <<"x">>), "")
    ELSE PathResult(b \o <<"/">>, "")

differencePathLoop(segs1, segs2, b) ==
    IF Len(segs1) > 0 /\ Len(segs2) > 0
    THEN IF Head(segs1).multi
         THEN differencePathMulti(Head(segs1), Head(segs2), b)
         ELSE differencePathSegment(Head(segs1), Head(segs2),
                                    Tail(segs1), Tail(segs2), b)
    ELSE IF Len(segs1) > 0 THEN PathResult(b \o writeMatchingPath(segs1), "")
    ELSE IF Len(segs2) > 0 THEN PathResult(b \o writeMatchingPath(segs2), "")
    ELSE PathResult(b, "")

\* differencePath returns a path that p1 matches and p2 doesn't; it assumes
\* there is such a path.
differencePath(p1, p2) == differencePathLoop(p1.segments, p2.segments, <<>>)

(***************************************************************************)
(* Conflict index.                                                         *)
(***************************************************************************)
indexKey(pos, s) == [pos |-> pos, s |-> s]

newIndex == [segments |-> <<>>, multis |-> <<>>]

\* idx.segments[key]: the zero value (no patterns) for an absent key.
indexLookup(idx, key) ==
    IF key \in DOMAIN idx.segments THEN idx.segments[key] ELSE <<>>

\* The loop of index.addPattern over the positions pos.. of pat.
RECURSIVE indexAddSegments(_, _, _)
indexAddSegments(segmap, pat, pos) ==
    IF pos >= Len(pat.segments) THEN segmap
    ELSE LET seg == pat.segments[pos + 1]
             key == indexKey(pos, IF ~seg.wild THEN seg.s ELSE <<>>)
             old == IF key \in DOMAIN segmap THEN segmap[key] ELSE <<>>
             new == [k \in (DOMAIN segmap) \cup {key} |->
                        IF k = key THEN Append(old, pat) ELSE segmap[k]]
         IN  indexAddSegments(new, pat, pos + 1)

indexAddPattern(idx, pat) ==
    IF lastSegment(pat).multi
    THEN [idx EXCEPT !.multis = Append(@, pat)]
    ELSE [idx EXCEPT !.segments = indexAddSegments(@, pat, 0)]

\* The position search of possiblyConflictingPatterns: the literal position
\* (before any multi) with the fewest indexed patterns; the first such
\* position wins ties.  best is -1 while no literal has been seen.
RECURSIVE minLiteralPos(_, _, _, _, _)
minLiteralPos(idx, pat, i, best, min) ==
    IF i >= Len(pat.segments) THEN best
    ELSE LET seg == pat.segments[i + 1]
         IN  IF seg.multi THEN best
             ELSE IF ~seg.wild
             THEN LET sum == Len(indexLookup(idx, indexKey(i, seg.s)))
                             + Len(indexLookup(idx, indexKey(i, <<>>)))
                  IN  IF best < 0 \/ sum < min
                      THEN minLiteralPos(idx, pat, i + 1, i, sum)
                      ELSE minLiteralPos(idx, pat, i + 1, best, min)
             ELSE minLiteralPos(idx, pat, i + 1, best, min)

\* The candidates once the position best has been chosen.
candidatesAt(idx, pat, best) ==
    IF best < 0
    THEN \* This pattern is all wildcards.
         indexLookup(idx, indexKey(Len(pat.segments) - 1, <<>>)) \o idx.multis
    ELSE indexLookup(idx, indexKey(best, pat.segments[best + 1].s))
         \o indexLookup(idx, indexKey(best, <<>>))
         \o idx.multis

\* possiblyConflictingPatterns: the patterns f is called on, in order, when
\* f never returns an error.
possiblyConflictingPatterns(idx, pat) ==
    IF lastSegment(pat).s = <<"/">>
    THEN indexLookup(idx, indexKey(Len(pat.segments) - 1, <<"/">>)) \o idx.multis
    ELSE candidatesAt(idx, pat, minLiteralPos(idx, pat, 0, -1, 0))

(***************************************************************************)
(* Decision tree.                                                          *)
(*                                                                         *)
(* A node is a record [pattern, handler, children, emptyChild].  Pointers  *)
(* are modelled by value: an operation that mutates a node through a       *)
(* pointer returns the node as mutated, and the caller stores it back      *)
(* where the pointer pointed.                                              *)
(***************************************************************************)
\* The nil *node, the nil *mapping and the nil http.Handler.
NilNode == [nil |-> TRUE]
NilMapping == [nil |-> TRUE]
NilHandler == "nil"

\* &node{}
newNode ==
    [pattern |-> NilPattern, handler |-> NilHandler,
     children |-> NilMapping, emptyChild |-> NilNode]

\* maxSlice is the maximum number of pairs for which a slice is used.
maxSlice == 8

\* &mapping{}: s holds the pairs while there are few, m while there are
\* many; mnil says that the Go map m is nil.
newMapping == [s |-> <<>>, m |-> <<>>, mnil |-> TRUE]

\* The map built from the entries of a slice (later entries overwrite).
RECURSIVE mapOfEntries(_, _)
mapOfEntries(s, m) ==
    IF Len(s) = 0 THEN m
    ELSE mapOfEntries(Tail(s),
                      [k \in (DOMAIN m) \cup {Head(s).key} |->
                          IF k = Head(s).key THEN Head(s).child ELSE m[k]])

\* add with the bound off by one: the slice takes maxSlice + 1 pairs.
mappingAddSwitchesLate(h, k, v) ==
    IF h.mnil /\ Len(h.s) <= maxSlice
    THEN [h EXCEPT !.s = Append(@, [key |-> k, child |-> v])]
    ELSE LET m0 == IF h.mnil THEN mapOfEntries(h.s, <<>>) ELSE h.m
         IN  [s |-> <<>>,
              m |-> [x \in (DOMAIN m0) \cup {k} |-> IF x = k THEN v ELSE m0[x]],
              mnil |-> FALSE]

\* add adds a key-value pair to the mapping.
mappingAdd(h, k, v) ==
    IF h.mnil /\ Len(h.s) < maxSlice
    THEN [h EXCEPT !.s = Append(@, [key |-> k, child |-> v])]
    ELSE LET m0 == IF h.mnil THEN mapOfEntries(h.s, <<>>) ELSE h.m
         IN  [s |-> <<>>,
              m |-> [x \in (DOMAIN m0) \cup {k} |-> IF x = k THEN v ELSE m0[x]],
              mnil |-> FALSE]

\* find returns the value corresponding to the given key, or nil.
mappingFind(h, k) ==
    IF h = NilMapping THEN NilNode
    ELSE IF ~h.mnil
    THEN (IF k \in DOMAIN h.m THEN h.m[k] ELSE NilNode)
    ELSE IF \E i \in 1..Len(h.s) : h.s[i].key = k
    THEN h.s[CHOOSE i \in 1..Len(h.s) :
                 h.s[i].key = k /\ \A j \in 1..(i - 1) : h.s[j].key # k].child
    ELSE NilNode

\* keys returns all the keys in the mapping: here, for every key, the number
\* of times the result holds it.
mappingKeys(h) ==
    IF h = NilMapping THEN <<>>
    ELSE IF ~h.mnil THEN [k \in DOMAIN h.m |-> 1]
    ELSE [k \in {h.s[i].key : i \in 1..Len(h.s)} |->
             Cardinality({i \in 1..Len(h.s) : h.s[i].key = k})]

\* The mapping after the node that find(k) points to has become c.
mappingStore(h, k, c) ==
    IF ~h.mnil THEN [h EXCEPT !.m[k] = c]
    ELSE LET i == CHOOSE i \in 1..Len(h.s) :
                     h.s[i].key = k /\ \A j \in 1..(i - 1) : h.s[j].key # k
         IN  [h EXCEPT !.s[i].child = c]

findChild(n, key) == mappingFind(n.children, key)

\* addChild: the node n after n.addChild(key); the node the call returns is
\* childOf(addChild(n, key), key).
addChild(n, key) ==
    IF key = <<>>
    THEN (IF n.emptyChild = NilNode THEN [n EXCEPT !.emptyChild = newNode] ELSE n)
    ELSE IF findChild(n, key) # NilNode THEN n
    ELSE [n EXCEPT !.children =
             mappingAdd(IF n.children = NilMapping THEN newMapping ELSE n.children,
                        key, newNode)]

childOf(n, key) == IF key = <<>> THEN n.emptyChild ELSE findChild(n, key)

\* The node n after the child that addChild(key) returned has become c.
storeChild(n, key, c) ==
    IF key = <<>> THEN [n EXCEPT !.emptyChild = c]
    ELSE [n EXCEPT !.children = mappingStore(@, key, c)]

\* set makes n a leaf; it panics if n already is one.
set(n, p, h) ==
    IF n.pattern # NilPattern \/ n.handler # NilHandler
    THEN [node |-> n, panic |-> "non-nil leaf fields"]
    ELSE [node |-> [n EXCEPT !.pattern = p, !.handler = h], panic |-> ""]

\* The node n after the call through its child key ended as r did.
storeResult(n, key, r) ==
    [node |-> storeChild(n, key, r.node), panic |-> r.panic]

\* The key of the child for a segment that is not a multi.
segmentKey(seg) == IF seg.wild THEN <<>> ELSE seg.s

\* addSegments: the node n after n.addSegments(segs, p, h), and the panic
\* that ended the call ("" for none); nodes created before a panic stay.
RECURSIVE addSegments(_, _, _, _)

\* n1 is n after addChild("*").
addMulti(n1, p, h) ==
    storeResult(n1, <<"*">>, set(childOf(n1, <<"*">>), p, h))

\* n1 is n after addChild(key).
addSegmentsBelow(n1, key, segs, p, h) ==
    storeResult(n1, key, addSegments(childOf(n1, key), segs, p, h))

addSegments(n, segs, p, h) ==
    IF Len(segs) = 0 THEN set(n, p, h)
    ELSE IF Head(segs).multi
    THEN IF Len(segs) # 1
         THEN [node |-> n, panic |-> "multi wildcard not last"]
         ELSE IF findChild(n, <<"*">>) # NilNode
         THEN [node |-> n, panic |-> "dup multi wildcards"]
         ELSE addMulti(addChild(n, <<"*">>), p, h)
    ELSE addSegmentsBelow(addChild(n, segmentKey(Head(segs))),
                          segmentKey(Head(segs)), Tail(segs), p, h)

\* The method level of addPattern: h1 is the host node after
\* addChild(p.method).
addPatternMethod(h1, p, h) ==
    storeResult(h1, p.method, addSegments(childOf(h1, p.method), p.segments, p, h))

\* The host level of addPattern: r1 is the root after addChild(p.host).
addPatternHost(r1, p, h) ==
    storeResult(r1, p.host,
                addPatternMethod(addChild(childOf(r1, p.host), p.method), p, h))

\* addPattern: first level of tree is host, second is method, the
\* remaining levels are path.
addPattern(root, p, h) == addPatternHost(addChild(root, p.host), p, h)

\* The split of nextSegment: p is the path without its leading slash, i the
\* index of its first slash.
nextSegmentAt(p, i) ==
    IF i < 0 THEN [seg |-> p, rest |-> <<>>]
    ELSE [seg |-> UpTo(p, i), rest |-> From(p, i)]

\* nextSegment returns segment, "/" for trailing slash; path should start
\* with a "/".
nextSegment(path) ==
    IF path = <<"/">> THEN [seg |-> <<"/">>, rest |-> <<>>]
    ELSE nextSegmentAt(Tail(path), IndexByte(Tail(path), "/"))

\* The result (nil, nil) of a match.
noMatch == [node |-> NilNode, matches |-> <<>>, panic |-> ""]

RECURSIVE matchPath(_, _, _)

\* if c != nil { n, m := c.matchPath(rest, matches) ... }
matchChild(c, rest, matches) ==
    IF c # NilNode THEN matchPath(c, rest, matches) ELSE noMatch

\* Match multi wildcard to the rest of the pattern; c is the child "*".
matchMulti(c, path, matches) ==
    IF c # NilNode
    THEN [node |-> c, matches |-> Append(matches, Tail(path)), panic |-> ""]
    ELSE noMatch

\* r2 is the result through the single wildcard child.
matchAfterWild(n, path, matches, r2) ==
    IF r2.node # NilNode THEN r2
    ELSE matchMulti(findChild(n, <<"*">>), path, matches)

\* r1 is the result through the literal child.
matchAfterLiteral(n, path, matches, sr, r1) ==
    IF r1.node # NilNode THEN r1
    ELSE \* Match single wildcard.
         matchAfterWild(n, path, matches,
                        matchChild(n.emptyChild, sr.rest, Append(matches, sr.seg)))

\* sr is nextSegment(path).
matchSegment(n, path, matches, sr) ==
    matchAfterLiteral(n, path, matches, sr,
                      matchChild(findChild(n, sr.seg), sr.rest, matches))

matchPath(n, path, matches) ==
    IF path = <<>>
    THEN (IF n.pattern = NilPattern THEN noMatch
          ELSE [node |-> n, matches |-> matches, panic |-> ""])
    ELSE matchSegment(n, path, matches, nextSegment(path))

\* r is the result through the child for the method.
matchAnyMethod(n, path, r) ==
    IF r.node # NilNode THEN r
    ELSE matchChild(n.emptyChild, path, <<>>)

matchMethodAndPath(n, method, path) ==
    IF method = <<>>
    THEN [node |-> NilNode, matches |-> <<>>, panic |-> "empty method"]
    ELSE matchAnyMethod(n, path, matchChild(findChild(n, method), path, <<>>))

\* if c != nil { c.matchMethodAndPath(method, path) }
matchHost(c, method, path) ==
    IF c # NilNode THEN matchMethodAndPath(c, method, path) ELSE noMatch

\* r is the result through the child for the host.
matchAnyHost(root, method, path, r) ==
    IF r.panic # "" \/ r.node # NilNode THEN r
    ELSE matchHost(root.emptyChild, method, path)

\* match of the root: the leaf found and the wildcard matches, or the panic
\* that ended the call.
match(root, method, host, path) ==
    IF host # <<>>
    THEN matchAnyHost(root, method, path, matchHost(findChild(root, host), method, path))
    ELSE matchAnyHost(root, method, path, noMatch)

(***************************************************************************)
(* ServeMux.                                                               *)
(***************************************************************************)
\* What register returns: the tree and index after the call, the error
\* returned ("" for nil), the panic that ended the call ("" for none) and
\* the parsed pattern.
registerResult(tr, idx, err, pan, pat) ==
    [tree |-> tr, index |-> idx, err |-> err, panic |-> pan, pat |-> pat]

\* registerAdded without mux.index.addPattern: the pattern is added to the
\* tree only.
registerAddedForgetsIndex(idx, pat, r) ==
    registerResult(r.node, idx, "", r.panic, pat)

\* The end of register; r is the outcome of mux.tree.addPattern.
registerAdded(idx, pat, r) ==
    IF r.panic # ""
    THEN registerResult(r.node, idx, "", r.panic, pat)
    ELSE registerResult(r.node, indexAddPattern(idx, pat), "", "", pat)

\* registerChecked with the pattern added to the index before the check for
\* conflict, so that a rejected pattern stays in the index.
registerCheckedAddsFirst(tr, idx, pat, handler, cands) ==
    IF \E i \in 1..Len(cands) : ConflictsWith(pat, cands[i])
    THEN registerResult(tr, indexAddPattern(idx, pat), "conflict", "", pat)
    ELSE registerAdded(idx, pat, addPattern(tr, pat, handler))

\* Check for conflict; cands are the patterns the index enumerates.
registerChecked(tr, idx, pat, handler, cands) ==
    IF \E i \in 1..Len(cands) : ConflictsWith(pat, cands[i])
    THEN registerResult(tr, idx, "conflict", "", pat)
    ELSE registerAdded(idx, pat, addPattern(tr, pat, handler))

\* pr is the outcome of Parse.
registerParsed(tr, idx, handler, pr) ==
    IF pr.err # ""
    THEN registerResult(tr, idx, pr.err, "", NilPattern)
    ELSE registerChecked(tr, idx, pr.pat, handler,
                         possiblyConflictingPatterns(idx, pr.pat))

\* mux.register(pattern, handler)
register(tr, idx, pattern, handler) ==
    IF pattern = <<>>
    THEN registerResult(tr, idx, "http: invalid pattern", "", NilPattern)
    ELSE IF handler = NilHandler
    THEN registerResult(tr, idx, "http: nil handler", "", NilPattern)
    ELSE registerParsed(tr, idx, handler, Parse(pattern))

\* exactMatch reports whether the node's pattern exactly matches the path;
\* it dereferences n.pattern, so a non-nil node without a pattern panics.
exactMatch(n, path) ==
    IF n = NilNode THEN [val |-> FALSE, panic |-> ""]
    ELSE IF n.pattern = NilPattern
    THEN [val |-> FALSE, panic |-> "nil pointer dereference"]
    ELSE IF Len(path) > 0 /\ path[Len(path)] # "/"
    THEN [val |-> ~lastSegment(n.pattern).multi, panic |-> ""]
    ELSE [val |-> Len(n.pattern.segments) = Count(path, "/"), panic |-> ""]

\* What matchOrRedirect returns: the node, the matches, the path of the
\* redirect URL, the redirect flag, and the panic that ended the call.
redirectResult(n, m, url, red, pan) ==
    [node |-> n, matches |-> m, url |-> url, redirect |-> red, panic |-> pan]

\* e2 is exactMatch(n2, path + "/").
matchOrRedirectExact2(r1, path2, e2) ==
    IF e2.panic # "" THEN redirectResult(NilNode, <<>>, <<>>, FALSE, e2.panic)
    ELSE IF e2.val THEN redirectResult(NilNode, <<>>, path2, TRUE, "")
    ELSE redirectResult(r1.node, r1.matches, <<>>, FALSE, "")

\* r2 is the match of path + "/".
matchOrRedirectSlash(r1, path2, r2) ==
    IF r2.panic # "" THEN redirectResult(NilNode, <<>>, <<>>, FALSE, r2.panic)
    ELSE matchOrRedirectExact2(r1, path2, exactMatch(r2.node, path2))

\* e1 is exactMatch(n, path).
matchOrRedirectExact(tr, method, host, path, u, r1, e1) ==
    IF e1.panic # "" THEN redirectResult(NilNode, <<>>, <<>>, FALSE, e1.panic)
    ELSE IF ~e1.val /\ u
    THEN \* If there is an exact match with a trailing slash, then redirect.
         matchOrRedirectSlash(r1, path \o <<"/">>,
                              match(tr, method, host, path \o <<"/">>))
    ELSE redirectResult(r1.node, r1.matches, <<>>, FALSE, "")

\* r1 is the match of path.
matchOrRedirectMatched(tr, method, host, path, u, r1) ==
    IF r1.panic # "" THEN redirectResult(NilNode, <<>>, <<>>, FALSE, r1.panic)
    ELSE matchOrRedirectExact(tr, method, host, path, u, r1, exactMatch(r1.node, path))

\* matchOrRedirect; u says whether the URL argument is non-nil.
matchOrRedirect(tr, method, host, path, u) ==
    matchOrRedirectMatched(tr, method, host, path, u, match(tr, method, host, path))

\* The answers of ServeMux.handler: kind is "handler" (the handler and
\* pattern of a node), "redirect" (a 301 to url), "notFound" (404),
\* "methodNotAllowed" (405) or "panic".
Response(kind, n, matches, url, pan) ==
    [kind |-> kind,
     handler |-> IF n = NilNode THEN NilHandler ELSE n.handler,
     pattern |-> IF n = NilNode THEN NilPattern ELSE n.pattern,
     matches |-> matches, url |-> url, panic |-> pan]

\* m is the match without the method.
handlerProbed(m) ==
    IF m.panic # "" THEN Response("panic", NilNode, <<>>, <<>>, m.panic)
    ELSE IF m.node # NilNode
    THEN Response("methodNotAllowed", NilNode, <<>>, <<>>, "")
    ELSE Response("notFound", NilNode, <<>>, <<>>, "")

\* The end of handler, after the match with the request method gave n.
handlerFinish(tr, n, matches, host, path) ==
    IF n = NilNode
    THEN handlerProbed(matchOrRedirect(tr, <<>>, host, path, TRUE))
    ELSE Response("handler", n, matches, <<>>, "")

\* CONNECT: m2 is the match redone with r.Host and a nil URL.
handlerConnectRedone(tr, r, m2) ==
    IF m2.panic # "" THEN Response("panic", NilNode, <<>>, <<>>, m2.panic)
    ELSE handlerFinish(tr, m2.node, m2.matches, r.URLHost, r.URLPath)

\* CONNECT: m1 is the match with r.URL.Host.
handlerConnect(tr, r, m1) ==
    IF m1.panic # "" THEN Response("panic", NilNode, <<>>, <<>>, m1.panic)
    ELSE IF m1.redirect THEN Response("redirect", NilNode, <<>>, m1.url, "")
    ELSE handlerConnectRedone(tr, r,
             matchOrRedirect(tr, r.Method, r.Host, r.URLPath, FALSE))

\* Other methods: host has its port stripped, path is cleaned, m is the
\* match of them.
handlerCleaned(tr, r, host, path, m) ==
    IF m.panic # "" THEN Response("panic", NilNode, <<>>, <<>>, m.panic)
    ELSE IF m.redirect THEN Response("redirect", NilNode, <<>>, m.url, "")
    ELSE IF path # r.URLPath
    THEN \* Redirect to cleaned path.
         Response("redirect", NilNode, <<>>, path, "")
    ELSE handlerFinish(tr, m.node, m.matches, host, path)

handlerOther(tr, r, host, path) ==
    handlerCleaned(tr, r, host, path, matchOrRedirect(tr, r.Method, host, path, TRUE))

\* handler: r is the request [Method, Host, URLHost, URLPath]; URLPath is
\* r.URL.EscapedPath().
handler(tr, r) ==
    IF r.Method = CONNECT
    THEN \* CONNECT requests are not canonicalized.
         handlerConnect(tr, r, matchOrRedirect(tr, r.Method, r.URLHost, r.URLPath, TRUE))
    ELSE handlerOther(tr, r, stripHostPort(r.Host), cleanPath(r.URLPath))

(***************************************************************************)
(* Path values: ServeMux.matches, ServeHTTP, PathValue and SetPathValue.   *)
(* mux.matches is a function from the requests that have an entry to       *)
(* match records [pat, values, other]; other is a function from names to   *)
(* values, the nil map being the empty function.                           *)
(***************************************************************************)
NilMatch == [nil |-> TRUE]

\* map[*http.Request]*match{}
newMatches == [r \in {} |-> NilMatch]

\* The nil map[string]string.
NilOther == [name \in {} |-> <<>>]

\* &match{}
newMatch == [pat |-> NilPattern, values |-> <<>>, other |-> NilOther]

\* The loop of match.index over the segments from position k on; i named
\* wildcards have been passed.
RECURSIVE matchIndexFrom(_, _, _, _)
matchIndexFrom(segs, name, k, i) ==
    IF k > Len(segs) THEN -1
    ELSE IF segs[k].wild /\ segs[k].s # <<>>
    THEN IF name = segs[k].s THEN i
         ELSE matchIndexFrom(segs, name, k + 1, i + 1)
    ELSE matchIndexFrom(segs, name, k + 1, i)

\* match.index
matchIndex(m, name) ==
    IF m.pat = NilPattern THEN -1
    ELSE matchIndexFrom(m.pat.segments, name, 1, 0)

\* m.values[i] of match.get, which panics when i is out of range.
matchGetAt(m, i, name) ==
    IF i >= 0
    THEN IF i < Len(m.values)
         THEN [val |-> m.values[i + 1], panic |-> ""]
         ELSE [val |-> <<>>, panic |-> "index out of range"]
    ELSE IF name \in DOMAIN m.other
    THEN [val |-> m.other[name], panic |-> ""]
    ELSE [val |-> <<>>, panic |-> ""]

\* match.get
matchGet(m, name) ==
    IF m = NilMatch THEN [val |-> <<>>, panic |-> ""]
    ELSE matchGetAt(m, matchIndex(m, name), name)

\* m.other[name] = value
storeOther(other, name, value) ==
    [k \in DOMAIN other \cup {name} |-> IF k = name THEN value ELSE other[k]]

\* m.values[i] = value of match.set, which panics when i is out of range.
matchSetAt(m, i, name, value) ==
    IF i >= 0
    THEN IF i < Len(m.values)
         THEN [match |-> [m EXCEPT !.values[i + 1] = value], panic |-> ""]
         ELSE [match |-> m, panic |-> "index out of range"]
    ELSE [match |-> [m EXCEPT !.other = storeOther(m.other, name, value)],
          panic |-> ""]

\* match.set
matchSet(m, name, value) == matchSetAt(m, matchIndex(m, name), name, value)

\* mux.matches[r], nil when r has no entry.
matchOf(ms, r) == IF r \in DOMAIN ms THEN ms[r] ELSE NilMatch

\* mux.matches[r] = m
storeMatch(ms, r, m) ==
    [k \in DOMAIN ms \cup {r} |-> IF k = r THEN m ELSE ms[k]]

\* ServeMux.PathValue
PathValue(ms, r, name) == matchGet(matchOf(ms, r), name)

\* The end of SetPathValue: s is what m.set returned.  The entry of r exists
\* from before the call of m.set, whether or not it panics.
setPathValueStored(ms, r, s) ==
    [matches |-> storeMatch(ms, r, s.match), panic |-> s.panic]

\* ServeMux.SetPathValue
SetPathValue(ms, r, name, value) ==
    setPathValueStored(ms, r,
        matchSet(IF r \in DOMAIN ms THEN ms[r] ELSE newMatch, name, value))

\* The part of ServeMux.ServeHTTP before the handler is called: resp is what
\* mux.handler(r) returned.
serveRecorded(ms, r, resp) ==
    IF resp.kind # "panic" /\ resp.pattern # NilPattern /\ resp.matches # <<>>
    THEN storeMatch(ms, r, [pat |-> resp.pattern, values |-> resp.matches,
                            other |-> NilOther])
    ELSE ms

(***************************************************************************)
(* A handler call step by step, for its interleaving with register.        *)
(*                                                                         *)
(* ServeMux.handler calls matchOrRedirect up to three times (the match,    *)
(* for CONNECT the match redone with r.Host, and the probe without the     *)
(* method).  Each matchOrRedirect call holds mux.mu.RLock() from its first *)
(* to its last statement and makes one or two tree lookups under it;       *)
(* between two matchOrRedirect calls the lock is free.  register holds     *)
(* mux.mu.Lock() around its check and its two insertions.                  *)
(*                                                                         *)
(* A call is the record                                                    *)
(*   pc      "idle", "match" (about to enter matchOrRedirect), "slash"     *)
(*           (inside it, about to match path + "/") or "done"              *)
(*   phase   "first", "redo" or "probe": which matchOrRedirect call        *)
(*   method, host, path, u   the arguments of that call                    *)
(*   r1      the result of its first lookup, while pc = "slash"            *)
(*   locked  the call holds the reader lock                                *)
(*   acq     the number of times the call has acquired the reader lock     *)
(*   seen    for every tree lookup made so far, the acquisition it was     *)
(*           made under and the patterns registered at that moment         *)
(*   resp    the answer of handler, once pc = "done"                       *)
(***************************************************************************)
NoRequest == [Method |-> <<>>, Host |-> <<>>, URLHost |-> <<>>, URLPath |-> <<>>]

NoMatch == [node |-> NilNode, matches |-> <<>>, panic |-> ""]

NoResponse == [kind |-> "none"]

idleCall ==
    [pc |-> "idle", req |-> NoRequest, phase |-> "first", method |-> <<>>,
     host |-> <<>>, path |-> <<>>, u |-> FALSE, r1 |-> NoMatch, locked |-> FALSE,
     acq |-> 0, seen |-> <<>>, resp |-> NoResponse]

\* The start of handler: the arguments of the first matchOrRedirect call.
callStart(r) ==
    [idleCall EXCEPT
        !.pc = "match", !.req = r, !.phase = "first", !.method = r.Method,
        !.host = IF r.Method = CONNECT THEN r.URLHost ELSE stripHostPort(r.Host),
        !.path = IF r.Method = CONNECT THEN r.URLPath ELSE cleanPath(r.URLPath),
        !.u = TRUE]

\* handler returns resp.
callDone(c, resp) == [c EXCEPT !.pc = "done", !.locked = FALSE, !.resp = resp]

\* handler goes on to another matchOrRedirect call.
callAgain(c, phase, method, host, u) ==
    [c EXCEPT !.pc = "match", !.locked = FALSE, !.phase = phase,
              !.method = method, !.host = host, !.u = u]

\* The matchOrRedirect call of c has returned m (the reader lock is released
\* by its deferred RUnlock): what handler does with it.
callReturned(c, m) ==
    IF m.panic # "" THEN callDone(c, Response("panic", NilNode, <<>>, <<>>, m.panic))
    ELSE IF c.phase = "probe" THEN callDone(c, handlerProbed(m))
    ELSE IF c.phase = "first" /\ m.redirect
    THEN callDone(c, Response("redirect", NilNode, <<>>, m.url, ""))
    ELSE IF c.phase = "first" /\ c.req.Method = CONNECT
    THEN \* Redo the match, this time with r.Host and a nil URL.
         callAgain(c, "redo", c.method, c.req.Host, FALSE)
    ELSE IF c.phase = "first" /\ c.path # c.req.URLPath
    THEN callDone(c, Response("redirect", NilNode, <<>>, c.path, ""))
    ELSE IF m.node = NilNode
    THEN \* The probe: host and path are handler's variables host and path.
         callAgain(c, "probe", <<>>,
                   IF c.req.Method = CONNECT THEN c.req.URLHost ELSE c.host, TRUE)
    ELSE callDone(c, Response("handler", m.node, m.matches, <<>>, ""))

\* The tree lookup under the acquisition acq is added to seen.
callSaw(c, acq, pats) ==
    [c EXCEPT !.acq = acq, !.seen = Append(@, [acq |-> acq, patterns |-> pats])]

\* e1 is exactMatch(n, path) of the first lookup r1.
callExact(c, r1, e1) ==
    IF e1.panic # ""
    THEN callReturned(c, redirectResult(NilNode, <<>>, <<>>, FALSE, e1.panic))
    ELSE IF ~e1.val /\ c.u
    THEN [c EXCEPT !.pc = "slash", !.locked = TRUE, !.r1 = r1]
    ELSE callReturned(c, redirectResult(r1.node, r1.matches, <<>>, FALSE, ""))

\* r1 is the first lookup of a matchOrRedirect call.
callMatched(c, r1) ==
    IF r1.panic # ""
    THEN callReturned(c, redirectResult(NilNode, <<>>, <<>>, FALSE, r1.panic))
    ELSE callExact(c, r1, exactMatch(r1.node, c.path))

\* matchOrRedirect up to its second lookup: RLock, match, exactMatch.
callMatch(c, tr, pats) ==
    callMatched(callSaw(c, c.acq + 1, pats), match(tr, c.method, c.host, c.path))

\* matchOrRedirect from its second lookup on, under the same acquisition.
callSlash(c, tr, pats) ==
    callReturned([callSaw(c, c.acq, pats) EXCEPT !.r1 = NoMatch],
                 matchOrRedirectSlash(c.r1, c.path \o <<"/">>,
                     match(tr, c.method, c.host, c.path \o <<"/">>)))

\* mux.mu.Lock() of register returns only while no reader holds the lock.
writerMayEnter(c) == ~c.locked

(***************************************************************************)
(* The state machine.                                                      *)
(*                                                                         *)
(* tree, index   the fields of the ServeMux                                *)
(* registered    history: the patterns register has added, in order        *)
(* last          the last call made and what it returned                   *)
(* scenario      0: any pattern text of PatternTexts may be registered;    *)
(*               k > 0: the patterns of the k-th test of the repository    *)
(*               are registered in the test's order                        *)
(* script        the pattern texts the scenario has still to register      *)
(* served        the number of lookups (match, handler and ServeHTTP       *)
(*               calls) made                                               *)
(* matches       the matches field of the ServeMux                         *)
(* sets          the number of SetPathValue calls made                     *)
(* call          the handler call in flight while patterns are registered  *)
(*               concurrently (see callStart)                              *)
(* container     a mapping, as the tests of mapping use it on its own      *)
(* added         history: the add calls made on container, in order        *)
(***************************************************************************)
VARIABLES tree, index, registered, last, scenario, script, served, matches, sets,
          call, container, added

vars == <<tree, index, registered, last, scenario, script, served, matches, sets,
          call, container, added>>

\* At most MaxPatterns patterns are registered when scenario = 0.
MaxPatterns == 2

\* At most MaxRequests lookups are made in a behaviour.
MaxRequests == 1

\* At most MaxSets calls of SetPathValue are made in a behaviour.
MaxSets == 2

\* The handler registered with every pattern.
TheHandler == "h"

\* Pattern texts offered to register when scenario = 0.
PatternTexts ==
    {
      <<"/">>,                                                   \* `/`
      <<"/", "a">>,                                              \* `/a`
      <<"/", "{", "x", "}">>,                                    \* `/{x}`
      <<"/", "{", "x", ".", ".", ".", "}">>,                     \* `/{x...}`
      <<"/", "{", "$", "}">>,                                    \* `/{$}`
      <<"/", "*">>,                                              \* `/*`
      <<"/", "a", "/">>,                                         \* `/a/`
      <<"/", "a", "/", "{", "x", "}">>,                          \* `/a/{x}`
      <<"/", "a", "/", "{", "$", "}">>,                          \* `/a/{$}`
      <<"/", "a", "/", "b">>,                                    \* `/a/b`
      <<"/", "{", "x", "}", "/">>,                               \* `/{x}/`
      <<"/", "{", "x", "}", "/", "a">>,                          \* `/{x}/a`
      <<"/", "*", "/", "a">>,                                    \* `/*/a`
      <<"/", "{", "x", "}", "/", "{", "$", "}">>,                \* `/{x}/{$}`
      <<"G", "E", "T", " ", "/">>,                               \* `GET /`
      <<"G", "E", "T", " ", "/", "a">>,                          \* `GET /a`
      <<"G", "E", "T", " ", "/", "{", "x", "}">>,                \* `GET /{x}`
      <<"G", "E", "T", " ", "/", "a", "/">>,                     \* `GET /a/`
      <<"G", "E", "T", " ", "/", "{", "x", "}", "/">>,           \* `GET /{x}/`
      <<"H", "E", "A", "D", " ", "/", "a">>,                     \* `HEAD /a`
      <<"G", "E", "T", " ", "/", "*", "/", "a">>,                \* `GET /*/a`
      <<"h", "/", "a">>,                                         \* `h/a`
      <<"h", "/">>,                                              \* `h/`
      <<"G", "E", "T", " ", "h", "/", "a">>,                     \* `GET h/a`
      <<>>,                                                      \* ``
      <<"a">>,                                                   \* `a`
      <<"P", "U", "T", "/", "a">>,                               \* `PUT/a`
      <<"/", "{", "x", "}", "/", "{", "x", "}">>                 \* `/{x}/{x}`
    }

\* Request paths, methods and hosts when scenario = 0.
RequestPaths ==
    {
      <<"/">>,                                                   \* /
      <<"/", "a">>,                                              \* /a
      <<"/", "a", "/">>,                                         \* /a/
      <<"/", "b">>,                                              \* /b
      <<"/", "*">>,                                              \* /*
      <<"/", "/">>,                                              \* //
      <<"/", "a", "/", "b">>,                                    \* /a/b
      <<"/", "a", "/", "b", "/">>,                               \* /a/b/
      <<"/", "a", "/", "*">>,                                    \* /a/*
      <<"/", "b", "/", "a">>                                     \* /b/a
    }

RequestMethods == {GET, HEAD, POST}

RequestHosts == {<<>>, <<"h">>}

\* The registrations of the repository's tests, in the tests' order.
Scripts ==
    <<
      \* TestNodeMatch, first tree
      <<
         <<"/", "a">>,
         <<"/", "a", "/", "b">>,
         <<"/", "a", "/", "{", "x", "}">>,
         <<"/", "g", "/", "h", "/", "i">>,
         <<"/", "g", "/", "{", "x", "}", "/", "j">>,
         <<"/", "a", "/", "b", "/", "{", "x", ".", ".", ".", "}">>,
         <<"/", "a", "/", "b", "/", "{", "y", "}">>,
         <<"/", "a", "/", "b", "/", "{", "$", "}">>
      >>,
      \* TestNodeMatch, second tree
      <<
         <<"/", "i", "t", "e", "m", "/">>,
         <<"P", "O", "S", "T", " ", "/", "i", "t", "e", "m", "/", "{", "u", "s", "e", "r", "}">>,
         <<"G", "E", "T", " ", "/", "i", "t", "e", "m", "/", "{", "u", "s", "e", "r", "}">>,
         <<"/", "i", "t", "e", "m", "/", "{", "u", "s", "e", "r", "}">>,
         <<"/", "i", "t", "e", "m", "/", "{", "u", "s", "e", "r", "}", "/", "{", "i", "d", "}">>,
         <<"/", "i", "t", "e", "m", "/", "{", "u", "s", "e", "r", "}", "/", "n", "e", "w">>,
         <<"/", "i", "t", "e", "m", "/", "{", "$", "}">>,
         <<"P", "O", "S", "T", " ", "a", "l", "t", ".", "c", "o", "m", "/", "i", "t", "e", "m", "/", "{", "u", "s", "e", "r", "}">>,
         <<"G", "E", "T", " ", "/", "h", "e", "a", "d", "w", "i", "n", "s">>,
         <<"H", "E", "A", "D", " ", "/", "h", "e", "a", "d", "w", "i", "n", "s">>,
         <<"/", "p", "a", "t", "h", "/", "{", "p", ".", ".", ".", "}">>
      >>,
      \* TestServeMuxHandler
      <<
         <<"/">>,
         <<"/", "f", "o", "o", "/">>,
         <<"/", "f", "o", "o">>,
         <<"/", "b", "a", "r", "/">>,
         <<"/", "/", "f", "o", "o">>
      >>,
      \* TestStatus
      <<
         <<"G", "E", "T", " ", "/", "g">>,
         <<"P", "O", "S", "T", " ", "/", "p">>
      >>,
      \* trailing-slash redirect of /a/{x}/
      <<
         <<"/", "a", "/", "{", "x", "}", "/">>
      >>,
      \* TestNodeMatch, /a/b/{$}
      <<
         <<"/", "a", "/", "b", "/", "{", "$", "}">>
      >>,
      \* TestNodeMatch, /a/b/{w}
      <<
         <<"/", "a", "/", "b", "/", "{", "w", "}">>
      >>,
      \* TestNodeMatch, /a/b/{w...}
      <<
         <<"/", "a", "/", "b", "/", "{", "w", ".", ".", ".", "}">>
      >>,
      \* TestNodeMatch, all three
      <<
         <<"/", "a", "/", "b", "/", "{", "$", "}">>,
         <<"/", "a", "/", "b", "/", "{", "w", "}">>,
         <<"/", "a", "/", "b", "/", "{", "w", ".", ".", ".", "}">>
      >>,
      \* a host pattern, requests with a port, CONNECT
      <<
         <<"h", "/", "a", "/">>,
         <<"/", "b">>,
         <<"/", "c", "/">>
      >>,
      \* TestPathValue, first case
      <<
         <<"/", "{", "a", "}", "/", "i", "s", "/", "{", "b", "}", "/", "{", "c", ".", ".", ".", "}">>
      >>,
      \* TestPathValue, escaped slashes
      <<
         <<"/", "n", "a", "m", "e", "s", "/", "{", "n", "a", "m", "e", "}", "/", "{", "o", "t", "h", "e", "r", ".", ".", ".", "}">>
      >>,
      \* TestSetPathValue
      <<
         <<"/", "a", "/", "{", "b", "}", "/", "c", "/", "{", "d", ".", ".", ".", "}">>
      >>,
      \* TestEscapedPath
      <<
         <<"/", "a", "/", "b", "/", "c">>,
         <<"/", "{", "x", "}", "/", "c">>
      >>,
      \* two named wildcards and a literal `*` in the request
      <<
         <<"/", "{", "b", "}", "/", "{", "d", ".", ".", ".", "}">>,
         <<"/", "a", "/", "{", "x", "}", "/">>,
         <<"/", "c">>
      >>
    >>

\* The calls of node.match made on the tree of each scenario.
ScriptProbes ==
    <<
      {
        [method |-> <<"G", "E", "T">>, host |-> <<>>, path |-> <<"/", "a">>],
        [method |-> <<"G", "E", "T">>, host |-> <<>>, path |-> <<"/", "b">>],
        [method |-> <<"G", "E", "T">>, host |-> <<>>, path |-> <<"/", "a", "/", "b">>],
        [method |-> <<"G", "E", "T">>, host |-> <<>>, path |-> <<"/", "a", "/", "c">>],
        [method |-> <<"G", "E", "T">>, host |-> <<>>, path |-> <<"/", "a", "/", "b", "/">>],
        [method |-> <<"G", "E", "T">>, host |-> <<>>, path |-> <<"/", "a", "/", "b", "/", "c">>],
        [method |-> <<"G", "E", "T">>, host |-> <<>>, path |-> <<"/", "a", "/", "b", "/", "c", "/", "d">>],
        [method |-> <<"G", "E", "T">>, host |-> <<>>, path |-> <<"/", "g", "/", "h", "/", "i">>],
        [method |-> <<"G", "E", "T">>, host |-> <<>>, path |-> <<"/", "g", "/", "h", "/", "j">>]
      },
      {
        [method |-> <<"G", "E", "T">>, host |-> <<>>, path |-> <<"/", "i", "t", "e", "m", "/", "j", "b", "a">>],
        [method |-> <<"P", "O", "S", "T">>, host |-> <<>>, path |-> <<"/", "i", "t", "e", "m", "/", "j", "b", "a">>],
        [method |-> <<"H", "E", "A", "D">>, host |-> <<>>, path |-> <<"/", "i", "t", "e", "m", "/", "j", "b", "a">>],
        [method |-> <<"P", "O", "S", "T">>, host |-> <<>>, path |-> <<"/", "i", "t", "e", "m", "/", "j", "b", "a", "/", "1", "7">>],
        [method |-> <<"G", "E", "T">>, host |-> <<>>, path |-> <<"/", "i", "t", "e", "m", "/", "j", "b", "a", "/", "n", "e", "w">>],
        [method |-> <<"G", "E", "T">>, host |-> <<>>, path |-> <<"/", "i", "t", "e", "m", "/">>],
        [method |-> <<"G", "E", "T">>, host |-> <<>>, path |-> <<"/", "i", "t", "e", "m", "/", "j", "b", "a", "/", "1", "7", "/", "l", "i", "n", "e", "2">>],
        [method |-> <<"P", "O", "S", "T">>, host |-> <<"a", "l", "t", ".", "c", "o", "m">>, path |-> <<"/", "i", "t", "e", "m", "/", "j", "b", "a">>],
        [method |-> <<"G", "E", "T">>, host |-> <<"a", "l", "t", ".", "c", "o", "m">>, path |-> <<"/", "i", "t", "e", "m", "/", "j", "b", "a">>],
        [method |-> <<"G", "E", "T">>, host |-> <<>>, path |-> <<"/", "i", "t", "e", "m">>],
        [method |-> <<"G", "E", "T">>, host |-> <<>>, path |-> <<"/", "h", "e", "a", "d", "w", "i", "n", "s">>],
        [method |-> <<"H", "E", "A", "D">>, host |-> <<>>, path |-> <<"/", "h", "e", "a", "d", "w", "i", "n", "s">>],
        [method |-> <<"G", "E", "T">>, host |-> <<>>, path |-> <<"/", "p", "a", "t", "h", "/", "t", "o", "/", "f", "i", "l", "e">>]
      },
      {
        [method |-> <<"G", "E", "T">>, host |-> <<"e", "x", "a", "m", "p", "l", "e", ".", "c", "o", "m">>, path |-> <<"/">>],
        [method |-> <<"G", "E", "T">>, host |-> <<"e", "x", "a", "m", "p", "l", "e", ".", "c", "o", "m">>, path |-> <<"/", "f", "o", "o">>],
        [method |-> <<"G", "E", "T">>, host |-> <<"e", "x", "a", "m", "p", "l", "e", ".", "c", "o", "m">>, path |-> <<"/", "f", "o", "o", "/", "x">>],
        [method |-> <<"G", "E", "T">>, host |-> <<"e", "x", "a", "m", "p", "l", "e", ".", "c", "o", "m">>, path |-> <<"/", "b", "a", "r">>]
      },
      {
        [method |-> <<"G", "E", "T">>, host |-> <<"h">>, path |-> <<"/", "g">>],
        [method |-> <<"G", "E", "T">>, host |-> <<"h">>, path |-> <<"/", "x">>],
        [method |-> <<"G", "E", "T">>, host |-> <<"h">>, path |-> <<"/", "p">>]
      },
      {
        [method |-> <<"G", "E", "T">>, host |-> <<>>, path |-> <<"/", "a", "/", "b">>],
        [method |-> <<"G", "E", "T">>, host |-> <<>>, path |-> <<"/", "a", "/", "b", "/">>],
        [method |-> <<"G", "E", "T">>, host |-> <<>>, path |-> <<"/", "a">>],
        [method |-> <<"G", "E", "T">>, host |-> <<>>, path |-> <<"/", "a", "/", "b", "/", "c">>]
      },
      {
        [method |-> <<"G", "E", "T">>, host |-> <<>>, path |-> <<"/", "a", "/", "b">>],
        [method |-> <<"G", "E", "T">>, host |-> <<>>, path |-> <<"/", "a", "/", "b", "/">>],
        [method |-> <<"G", "E", "T">>, host |-> <<>>, path |-> <<"/", "a", "/", "b", "/", "c">>],
        [method |-> <<"G", "E", "T">>, host |-> <<>>, path |-> <<"/", "a", "/", "b", "/", "c", "/", "d">>]
      },
      {
        [method |-> <<"G", "E", "T">>, host |-> <<>>, path |-> <<"/", "a", "/", "b">>],
        [method |-> <<"G", "E", "T">>, host |-> <<>>, path |-> <<"/", "a", "/", "b", "/">>],
        [method |-> <<"G", "E", "T">>, host |-> <<>>, path |-> <<"/", "a", "/", "b", "/", "c">>],
        [method |-> <<"G", "E", "T">>, host |-> <<>>, path |-> <<"/", "a", "/", "b", "/", "c", "/", "d">>]
      },
      {
        [method |-> <<"G", "E", "T">>, host |-> <<>>, path |-> <<"/", "a", "/", "b">>],
        [method |-> <<"G", "E", "T">>, host |-> <<>>, path |-> <<"/", "a", "/", "b", "/">>],
        [method |-> <<"G", "E", "T">>, host |-> <<>>, path |-> <<"/", "a", "/", "b", "/", "c">>],
        [method |-> <<"G", "E", "T">>, host |-> <<>>, path |-> <<"/", "a", "/", "b", "/", "c", "/", "d">>]
      },
      {
        [method |-> <<"G", "E", "T">>, host |-> <<>>, path |-> <<"/", "a", "/", "b">>],
        [method |-> <<"G", "E", "T">>, host |-> <<>>, path |-> <<"/", "a", "/", "b", "/">>],
        [method |-> <<"G", "E", "T">>, host |-> <<>>, path |-> <<"/", "a", "/", "b", "/", "c">>],
        [method |-> <<"G", "E", "T">>, host |-> <<>>, path |-> <<"/", "a", "/", "b", "/", "c", "/", "d">>]
      },
      {
        [method |-> <<"G", "E", "T">>, host |-> <<"h">>, path |-> <<"/", "a", "/">>],
        [method |-> <<"G", "E", "T">>, host |-> <<"h">>, path |-> <<"/", "b">>],
        [method |-> <<"G", "E", "T">>, host |-> <<"h", ":", "8", "0">>, path |-> <<"/", "a", "/">>],
        [method |-> <<"G", "E", "T">>, host |-> <<"h", ":", "8", "0">>, path |-> <<"/", "b">>]
      },
      {
        [method |-> <<"G", "E", "T">>, host |-> <<>>, path |-> <<"/", "n", "o", "w", "/", "i", "s", "/", "t", "h", "e", "/", "t", "i", "m", "e", "/", "f", "o", "r", "/", "a", "l", "l">>]
      },
      {
        [method |-> <<"G", "E", "T">>, host |-> <<>>, path |-> <<"/", "n", "a", "m", "e", "s", "/", "%", "2", "F", "j", "o", "h", "n", "/", "a", "d", "d", "r", "e", "s", "s">>],
        [method |-> <<"G", "E", "T">>, host |-> <<>>, path |-> <<"/", "n", "a", "m", "e", "s", "/", "j", "o", "h", "n", "%", "2", "F", "d", "o", "e", "/", "a", "d", "d", "r", "e", "s", "s">>]
      },
      {
        [method |-> <<"G", "E", "T">>, host |-> <<>>, path |-> <<"/", "a", "/", "b", "/", "c", "/", "d", "/", "e">>]
      },
      {
        [method |-> <<"G", "E", "T">>, host |-> <<>>, path |-> <<"/", "a", "/", "b", "/", "c">>],
        [method |-> <<"G", "E", "T">>, host |-> <<>>, path |-> <<"/", "a", "%", "2", "F", "b", "/", "c">>]
      },
      {
        [method |-> <<"G", "E", "T">>, host |-> <<>>, path |-> <<"/", "a", "/", "b">>],
        [method |-> <<"G", "E", "T">>, host |-> <<>>, path |-> <<"/", "b", "/", "*">>],
        [method |-> <<"G", "E", "T">>, host |-> <<>>, path |-> <<"/", "a", "/", "b", "/">>],
        [method |-> <<"G", "E", "T">>, host |-> <<>>, path |-> <<"/", "c">>],
        [method |-> <<"G", "E", "T">>, host |-> <<>>, path |-> <<"/", "z">>]
      }
    >>

\* The requests sent to the mux of each scenario.
ScriptRequests ==
    <<
      {
        [Method |-> <<"G", "E", "T">>, Host |-> <<>>, URLHost |-> <<>>, URLPath |-> <<"/", "a">>],
        [Method |-> <<"G", "E", "T">>, Host |-> <<>>, URLHost |-> <<>>, URLPath |-> <<"/", "b">>],
        [Method |-> <<"G", "E", "T">>, Host |-> <<>>, URLHost |-> <<>>, URLPath |-> <<"/", "a", "/", "b">>],
        [Method |-> <<"G", "E", "T">>, Host |-> <<>>, URLHost |-> <<>>, URLPath |-> <<"/", "a", "/", "c">>],
        [Method |-> <<"G", "E", "T">>, Host |-> <<>>, URLHost |-> <<>>, URLPath |-> <<"/", "a", "/", "b", "/">>],
        [Method |-> <<"G", "E", "T">>, Host |-> <<>>, URLHost |-> <<>>, URLPath |-> <<"/", "a", "/", "b", "/", "c">>],
        [Method |-> <<"G", "E", "T">>, Host |-> <<>>, URLHost |-> <<>>, URLPath |-> <<"/", "a", "/", "b", "/", "c", "/", "d">>],
        [Method |-> <<"G", "E", "T">>, Host |-> <<>>, URLHost |-> <<>>, URLPath |-> <<"/", "g", "/", "h", "/", "i">>],
        [Method |-> <<"G", "E", "T">>, Host |-> <<>>, URLHost |-> <<>>, URLPath |-> <<"/", "g", "/", "h", "/", "j">>]
      },
      {
        [Method |-> <<"G", "E", "T">>, Host |-> <<>>, URLHost |-> <<>>, URLPath |-> <<"/", "i", "t", "e", "m", "/", "j", "b", "a">>],
        [Method |-> <<"P", "O", "S", "T">>, Host |-> <<>>, URLHost |-> <<>>, URLPath |-> <<"/", "i", "t", "e", "m", "/", "j", "b", "a">>],
        [Method |-> <<"H", "E", "A", "D">>, Host |-> <<>>, URLHost |-> <<>>, URLPath |-> <<"/", "i", "t", "e", "m", "/", "j", "b", "a">>],
        [Method |-> <<"P", "O", "S", "T">>, Host |-> <<>>, URLHost |-> <<>>, URLPath |-> <<"/", "i", "t", "e", "m", "/", "j", "b", "a", "/", "1", "7">>],
        [Method |-> <<"G", "E", "T">>, Host |-> <<>>, URLHost |-> <<>>, URLPath |-> <<"/", "i", "t", "e", "m", "/", "j", "b", "a", "/", "n", "e", "w">>],
        [Method |-> <<"G", "E", "T">>, Host |-> <<>>, URLHost |-> <<>>, URLPath |-> <<"/", "i", "t", "e", "m", "/">>],
        [Method |-> <<"G", "E", "T">>, Host |-> <<>>, URLHost |-> <<>>, URLPath |-> <<"/", "i", "t", "e", "m", "/", "j", "b", "a", "/", "1", "7", "/", "l", "i", "n", "e", "2">>],
        [Method |-> <<"P", "O", "S", "T">>, Host |-> <<"a", "l", "t", ".", "c", "o", "m">>, URLHost |-> <<>>, URLPath |-> <<"/", "i", "t", "e", "m", "/", "j", "b", "a">>],
        [Method |-> <<"G", "E", "T">>, Host |-> <<"a", "l", "t", ".", "c", "o", "m">>, URLHost |-> <<>>, URLPath |-> <<"/", "i", "t", "e", "m", "/", "j", "b", "a">>],
        [Method |-> <<"G", "E", "T">>, Host |-> <<>>, URLHost |-> <<>>, URLPath |-> <<"/", "i", "t", "e", "m">>],
        [Method |-> <<"G", "E", "T">>, Host |-> <<>>, URLHost |-> <<>>, URLPath |-> <<"/", "h", "e", "a", "d", "w", "i", "n", "s">>],
        [Method |-> <<"H", "E", "A", "D">>, Host |-> <<>>, URLHost |-> <<>>, URLPath |-> <<"/", "h", "e", "a", "d", "w", "i", "n", "s">>],
        [Method |-> <<"G", "E", "T">>, Host |-> <<>>, URLHost |-> <<>>, URLPath |-> <<"/", "p", "a", "t", "h", "/", "t", "o", "/", "f", "i", "l", "e">>]
      },
      {
        [Method |-> <<"G", "E", "T">>, Host |-> <<"e", "x", "a", "m", "p", "l", "e", ".", "c", "o", "m">>, URLHost |-> <<>>, URLPath |-> <<"/">>],
        [Method |-> <<"G", "E", "T">>, Host |-> <<"e", "x", "a", "m", "p", "l", "e", ".", "c", "o", "m">>, URLHost |-> <<>>, URLPath |-> <<"/", "/">>],
        [Method |-> <<"G", "E", "T">>, Host |-> <<"e", "x", "a", "m", "p", "l", "e", ".", "c", "o", "m">>, URLHost |-> <<>>, URLPath |-> <<"/", "f", "o", "o", "/", ".", ".", "/", "b", "a", "r", "/", ".", "/", ".", ".", "/", "/", "b", "a", "z">>],
        [Method |-> <<"G", "E", "T">>, Host |-> <<"e", "x", "a", "m", "p", "l", "e", ".", "c", "o", "m">>, URLHost |-> <<>>, URLPath |-> <<"/", "f", "o", "o">>],
        [Method |-> <<"G", "E", "T">>, Host |-> <<"e", "x", "a", "m", "p", "l", "e", ".", "c", "o", "m">>, URLHost |-> <<>>, URLPath |-> <<"/", "f", "o", "o", "/", "x">>],
        [Method |-> <<"G", "E", "T">>, Host |-> <<"e", "x", "a", "m", "p", "l", "e", ".", "c", "o", "m">>, URLHost |-> <<>>, URLPath |-> <<"/", "b", "a", "r", "/", "x">>],
        [Method |-> <<"G", "E", "T">>, Host |-> <<"e", "x", "a", "m", "p", "l", "e", ".", "c", "o", "m">>, URLHost |-> <<>>, URLPath |-> <<"/", "b", "a", "r">>],
        [Method |-> <<"G", "E", "T">>, Host |-> <<"e", "x", "a", "m", "p", "l", "e", ".", "c", "o", "m">>, URLHost |-> <<>>, URLPath |-> <<"/", "/", "f", "o", "o">>],
        [Method |-> <<"C", "O", "N", "N", "E", "C", "T">>, Host |-> <<"e", "x", "a", "m", "p", "l", "e", ".", "c", "o", "m">>, URLHost |-> <<>>, URLPath |-> <<"/">>],
        [Method |-> <<"C", "O", "N", "N", "E", "C", "T">>, Host |-> <<"e", "x", "a", "m", "p", "l", "e", ".", "c", "o", "m">>, URLHost |-> <<>>, URLPath |-> <<"/", "/">>],
        [Method |-> <<"C", "O", "N", "N", "E", "C", "T">>, Host |-> <<"e", "x", "a", "m", "p", "l", "e", ".", "c", "o", "m">>, URLHost |-> <<>>, URLPath |-> <<"/", "f", "o", "o", "/", ".", ".", "/", "b", "a", "r", "/", ".", "/", ".", ".", "/", "/", "b", "a", "z">>],
        [Method |-> <<"C", "O", "N", "N", "E", "C", "T">>, Host |-> <<"e", "x", "a", "m", "p", "l", "e", ".", "c", "o", "m">>, URLHost |-> <<>>, URLPath |-> <<"/", "f", "o", "o">>],
        [Method |-> <<"C", "O", "N", "N", "E", "C", "T">>, Host |-> <<"e", "x", "a", "m", "p", "l", "e", ".", "c", "o", "m">>, URLHost |-> <<>>, URLPath |-> <<"/", "f", "o", "o", "/", "x">>],
        [Method |-> <<"C", "O", "N", "N", "E", "C", "T">>, Host |-> <<"e", "x", "a", "m", "p", "l", "e", ".", "c", "o", "m">>, URLHost |-> <<>>, URLPath |-> <<"/", "b", "a", "r", "/", "x">>],
        [Method |-> <<"C", "O", "N", "N", "E", "C", "T">>, Host |-> <<"e", "x", "a", "m", "p", "l", "e", ".", "c", "o", "m">>, URLHost |-> <<>>, URLPath |-> <<"/", "b", "a", "r">>],
        [Method |-> <<"C", "O", "N", "N", "E", "C", "T">>, Host |-> <<"e", "x", "a", "m", "p", "l", "e", ".", "c", "o", "m">>, URLHost |-> <<>>, URLPath |-> <<"/", "/", "f", "o", "o">>]
      },
      {
        [Method |-> <<"G", "E", "T">>, Host |-> <<"h", ":", "8", "0">>, URLHost |-> <<>>, URLPath |-> <<"/", "g">>],
        [Method |-> <<"G", "E", "T">>, Host |-> <<"h", ":", "8", "0">>, URLHost |-> <<>>, URLPath |-> <<"/", "x">>],
        [Method |-> <<"G", "E", "T">>, Host |-> <<"h", ":", "8", "0">>, URLHost |-> <<>>, URLPath |-> <<"/", "p">>],
        [Method |-> <<"G", "E", "T">>, Host |-> <<"h", ":", "8", "0">>, URLHost |-> <<>>, URLPath |-> <<"/", ".", "/", "p">>]
      },
      {
        [Method |-> <<"G", "E", "T">>, Host |-> <<>>, URLHost |-> <<>>, URLPath |-> <<"/", "a", "/", "b">>],
        [Method |-> <<"G", "E", "T">>, Host |-> <<>>, URLHost |-> <<>>, URLPath |-> <<"/", "a", "/", "b", "/">>],
        [Method |-> <<"G", "E", "T">>, Host |-> <<>>, URLHost |-> <<>>, URLPath |-> <<"/", "a">>],
        [Method |-> <<"G", "E", "T">>, Host |-> <<>>, URLHost |-> <<>>, URLPath |-> <<"/", "a", "/", "b", "/", "c">>]
      },
      {
        [Method |-> <<"G", "E", "T">>, Host |-> <<>>, URLHost |-> <<>>, URLPath |-> <<"/", "a", "/", "b">>],
        [Method |-> <<"G", "E", "T">>, Host |-> <<>>, URLHost |-> <<>>, URLPath |-> <<"/", "a", "/", "b", "/">>],
        [Method |-> <<"G", "E", "T">>, Host |-> <<>>, URLHost |-> <<>>, URLPath |-> <<"/", "a", "/", "b", "/", "c">>],
        [Method |-> <<"G", "E", "T">>, Host |-> <<>>, URLHost |-> <<>>, URLPath |-> <<"/", "a", "/", "b", "/", "c", "/", "d">>]
      },
      {
        [Method |-> <<"G", "E", "T">>, Host |-> <<>>, URLHost |-> <<>>, URLPath |-> <<"/", "a", "/", "b">>],
        [Method |-> <<"G", "E", "T">>, Host |-> <<>>, URLHost |-> <<>>, URLPath |-> <<"/", "a", "/", "b", "/">>],
        [Method |-> <<"G", "E", "T">>, Host |-> <<>>, URLHost |-> <<>>, URLPath |-> <<"/", "a", "/", "b", "/", "c">>],
        [Method |-> <<"G", "E", "T">>, Host |-> <<>>, URLHost |-> <<>>, URLPath |-> <<"/", "a", "/", "b", "/", "c", "/", "d">>]
      },
      {
        [Method |-> <<"G", "E", "T">>, Host |-> <<>>, URLHost |-> <<>>, URLPath |-> <<"/", "a", "/", "b">>],
        [Method |-> <<"G", "E", "T">>, Host |-> <<>>, URLHost |-> <<>>, URLPath |-> <<"/", "a", "/", "b", "/">>],
        [Method |-> <<"G", "E", "T">>, Host |-> <<>>, URLHost |-> <<>>, URLPath |-> <<"/", "a", "/", "b", "/", "c">>],
        [Method |-> <<"G", "E", "T">>, Host |-> <<>>, URLHost |-> <<>>, URLPath |-> <<"/", "a", "/", "b", "/", "c", "/", "d">>]
      },
      {
        [Method |-> <<"G", "E", "T">>, Host |-> <<>>, URLHost |-> <<>>, URLPath |-> <<"/", "a", "/", "b">>],
        [Method |-> <<"G", "E", "T">>, Host |-> <<>>, URLHost |-> <<>>, URLPath |-> <<"/", "a", "/", "b", "/">>],
        [Method |-> <<"G", "E", "T">>, Host |-> <<>>, URLHost |-> <<>>, URLPath |-> <<"/", "a", "/", "b", "/", "c">>],
        [Method |-> <<"G", "E", "T">>, Host |-> <<>>, URLHost |-> <<>>, URLPath |-> <<"/", "a", "/", "b", "/", "c", "/", "d">>]
      },
      {
        [Method |-> <<"G", "E", "T">>, Host |-> <<"h", ":", "8", "0">>, URLHost |-> <<>>, URLPath |-> <<"/", "a", "/">>],
        [Method |-> <<"G", "E", "T">>, Host |-> <<"h", ":", "8", "0">>, URLHost |-> <<>>, URLPath |-> <<"/", "a", "/", ".", "/">>],
        [Method |-> <<"G", "E", "T">>, Host |-> <<"h", ":", "8", "0">>, URLHost |-> <<>>, URLPath |-> <<"/", "a", "/", "x", "/", ".", ".">>],
        [Method |-> <<"G", "E", "T">>, Host |-> <<"h", ":", "8", "0">>, URLHost |-> <<>>, URLPath |-> <<"/", "b">>],
        [Method |-> <<"G", "E", "T">>, Host |-> <<"h", ":", "8", "0">>, URLHost |-> <<>>, URLPath |-> <<"/", "/", "b">>],
        [Method |-> <<"G", "E", "T">>, Host |-> <<"h", ":", "8", "0">>, URLHost |-> <<>>, URLPath |-> <<"/", "c">>],
        [Method |-> <<"G", "E", "T">>, Host |-> <<"h", ":", "8", "0">>, URLHost |-> <<>>, URLPath |-> <<"/", "c", "/", ".", ".", "/", "b">>],
        [Method |-> <<"C", "O", "N", "N", "E", "C", "T">>, Host |-> <<"h", ":", "8", "0">>, URLHost |-> <<>>, URLPath |-> <<"/", "a", "/">>],
        [Method |-> <<"C", "O", "N", "N", "E", "C", "T">>, Host |-> <<"h", ":", "8", "0">>, URLHost |-> <<>>, URLPath |-> <<"/", "a", "/", ".", "/">>],
        [Method |-> <<"C", "O", "N", "N", "E", "C", "T">>, Host |-> <<"h", ":", "8", "0">>, URLHost |-> <<>>, URLPath |-> <<"/", "a", "/", "x", "/", ".", ".">>],
        [Method |-> <<"C", "O", "N", "N", "E", "C", "T">>, Host |-> <<"h", ":", "8", "0">>, URLHost |-> <<>>, URLPath |-> <<"/", "b">>],
        [Method |-> <<"C", "O", "N", "N", "E", "C", "T">>, Host |-> <<"h", ":", "8", "0">>, URLHost |-> <<>>, URLPath |-> <<"/", "/", "b">>],
        [Method |-> <<"C", "O", "N", "N", "E", "C", "T">>, Host |-> <<"h", ":", "8", "0">>, URLHost |-> <<>>, URLPath |-> <<"/", "c">>],
        [Method |-> <<"C", "O", "N", "N", "E", "C", "T">>, Host |-> <<"h", ":", "8", "0">>, URLHost |-> <<>>, URLPath |-> <<"/", "c", "/", ".", ".", "/", "b">>]
      },
      {
        [Method |-> <<"G", "E", "T">>, Host |-> <<>>, URLHost |-> <<>>, URLPath |-> <<"/", "n", "o", "w", "/", "i", "s", "/", "t", "h", "e", "/", "t", "i", "m", "e", "/", "f", "o", "r", "/", "a", "l", "l">>]
      },
      {
        [Method |-> <<"G", "E", "T">>, Host |-> <<>>, URLHost |-> <<>>, URLPath |-> <<"/", "n", "a", "m", "e", "s", "/", "%", "2", "F", "j", "o", "h", "n", "/", "a", "d", "d", "r", "e", "s", "s">>],
        [Method |-> <<"G", "E", "T">>, Host |-> <<>>, URLHost |-> <<>>, URLPath |-> <<"/", "n", "a", "m", "e", "s", "/", "j", "o", "h", "n", "%", "2", "F", "d", "o", "e", "/", "a", "d", "d", "r", "e", "s", "s">>]
      },
      {
        [Method |-> <<"G", "E", "T">>, Host |-> <<>>, URLHost |-> <<>>, URLPath |-> <<"/", "a", "/", "b", "/", "c", "/", "d", "/", "e">>]
      },
      {
        [Method |-> <<"G", "E", "T">>, Host |-> <<>>, URLHost |-> <<>>, URLPath |-> <<"/", "a", "/", "b", "/", "c">>],
        [Method |-> <<"G", "E", "T">>, Host |-> <<>>, URLHost |-> <<>>, URLPath |-> <<"/", "a", "%", "2", "F", "b", "/", "c">>]
      },
      {
        [Method |-> <<"G", "E", "T">>, Host |-> <<>>, URLHost |-> <<>>, URLPath |-> <<"/", "a", "/", "b">>],
        [Method |-> <<"G", "E", "T">>, Host |-> <<>>, URLHost |-> <<>>, URLPath |-> <<"/", "b", "/", "*">>],
        [Method |-> <<"G", "E", "T">>, Host |-> <<>>, URLHost |-> <<>>, URLPath |-> <<"/", "a", "/", "b", "/">>],
        [Method |-> <<"G", "E", "T">>, Host |-> <<>>, URLHost |-> <<>>, URLPath |-> <<"/", "c">>],
        [Method |-> <<"G", "E", "T">>, Host |-> <<>>, URLHost |-> <<>>, URLPath |-> <<"/", "z">>]
      }
    >>

\* The requests served by ServeHTTP in each scenario.
ScriptServes ==
    <<
      {},
      {},
      {},
      {},
      {},
      {},
      {},
      {},
      {},
      {},
      {
        [Method |-> <<"G", "E", "T">>, Host |-> <<>>, URLHost |-> <<>>, URLPath |-> <<"/", "n", "o", "w", "/", "i", "s", "/", "t", "h", "e", "/", "t", "i", "m", "e", "/", "f", "o", "r", "/", "a", "l", "l">>]
      },
      {
        [Method |-> <<"G", "E", "T">>, Host |-> <<>>, URLHost |-> <<>>, URLPath |-> <<"/", "n", "a", "m", "e", "s", "/", "%", "2", "F", "j", "o", "h", "n", "/", "a", "d", "d", "r", "e", "s", "s">>],
        [Method |-> <<"G", "E", "T">>, Host |-> <<>>, URLHost |-> <<>>, URLPath |-> <<"/", "n", "a", "m", "e", "s", "/", "j", "o", "h", "n", "%", "2", "F", "d", "o", "e", "/", "a", "d", "d", "r", "e", "s", "s">>]
      },
      {
        [Method |-> <<"G", "E", "T">>, Host |-> <<>>, URLHost |-> <<>>, URLPath |-> <<"/", "a", "/", "b", "/", "c", "/", "d", "/", "e">>]
      },
      {
        [Method |-> <<"G", "E", "T">>, Host |-> <<>>, URLHost |-> <<>>, URLPath |-> <<"/", "a", "/", "b", "/", "c">>],
        [Method |-> <<"G", "E", "T">>, Host |-> <<>>, URLHost |-> <<>>, URLPath |-> <<"/", "a", "%", "2", "F", "b", "/", "c">>]
      },
      {
        [Method |-> <<"G", "E", "T">>, Host |-> <<>>, URLHost |-> <<>>, URLPath |-> <<"/", "a", "/", "b">>],
        [Method |-> <<"G", "E", "T">>, Host |-> <<>>, URLHost |-> <<>>, URLPath |-> <<"/", "b", "/", "*">>],
        [Method |-> <<"G", "E", "T">>, Host |-> <<>>, URLHost |-> <<>>, URLPath |-> <<"/", "a", "/", "b", "/">>],
        [Method |-> <<"G", "E", "T">>, Host |-> <<>>, URLHost |-> <<>>, URLPath |-> <<"/", "c">>],
        [Method |-> <<"G", "E", "T">>, Host |-> <<>>, URLHost |-> <<>>, URLPath |-> <<"/", "z">>]
      }
    >>

\* Pattern texts whose patterns are compared with each other.
CompareTexts ==
    {
      <<"/">>,                                                   \* `/`
      <<"/", "a">>,                                              \* `/a`
      <<"/", "b">>,                                              \* `/b`
      <<"/", "{", "x", "}">>,                                    \* `/{x}`
      <<"/", "{", "y", "}">>,                                    \* `/{y}`
      <<"/", "{", "x", ".", ".", ".", "}">>,                     \* `/{x...}`
      <<"/", "{", "$", "}">>,                                    \* `/{$}`
      <<"/", "a", "/">>,                                         \* `/a/`
      <<"/", "a", "/", "b">>,                                    \* `/a/b`
      <<"/", "a", "/", "{", "x", "}">>,                          \* `/a/{x}`
      <<"/", "{", "x", "}", "/", "b">>,                          \* `/{x}/b`
      <<"/", "{", "x", "}", "/", "{", "y", "}">>,                \* `/{x}/{y}`
      <<"/", "a", "/", "{", "$", "}">>,                          \* `/a/{$}`
      <<"/", "a", "/", "{", "x", ".", ".", ".", "}">>,           \* `/a/{x...}`
      <<"/", "{", "x", "}", "/">>,                               \* `/{x}/`
      <<"/", "{", "x", "}", "/", "{", "$", "}">>,                \* `/{x}/{$}`
      <<"/", "f", "o", "o">>,                                    \* `/foo`
      <<"G", "E", "T", " ", "/">>,                               \* `GET /`
      <<"G", "E", "T", " ", "/", "a">>,                          \* `GET /a`
      <<"P", "O", "S", "T", " ", "/", "a">>,                     \* `POST /a`
      <<"G", "E", "T", " ", "/", "{", "x", "}">>,                \* `GET /{x}`
      <<"G", "E", "T", " ", "/", "f", "o", "o">>,                \* `GET /foo`
      <<"G", "E", "T", " ", "/", "a", "/">>,                     \* `GET /a/`
      <<"h", "/", "a">>,                                         \* `h/a`
      <<"g", "/", "a">>,                                         \* `g/a`
      <<"h", "/", "{", "x", "}">>,                               \* `h/{x}`
      <<"G", "E", "T", " ", "h", "/", "a">>,                     \* `GET h/a`
      <<"/", "/", "a">>,                                         \* `//a`
      <<"a">>,                                                   \* `a`
      <<"/", "{", "x", "}", "/", "{", "x", "}">>                 \* `/{x}/{x}`
    }

\* The texts given to Parse on their own: those of TestParse and
\* TestParseError, every method, unclean paths, spaces, wildcard names.
ParseTexts ==
    {
      <<"/">>,                                                   \* `/`
      <<"/", "a">>,                                              \* `/a`
      <<"/", "a", "/">>,                                         \* `/a/`
      <<"/", "p", "a", "t", "h", "/", "t", "o", "/", "s", "o", "m", "e", "t", "h", "i", "n", "g">>, \* `/path/to/something`
      <<"/", "{", "w", "1", "}", "/", "l", "i", "t", "/", "{", "w", "2", "}">>, \* `/{w1}/lit/{w2}`
      <<"/", "{", "w", "1", "}", "/", "l", "i", "t", "/", "{", "w", "2", "}", "/">>, \* `/{w1}/lit/{w2}/`
      <<"e", "x", "a", "m", "p", "l", "e", ".", "c", "o", "m", "/">>, \* `example.com/`
      <<"G", "E", "T", " ", "/">>,                               \* `GET /`
      <<"P", "O", "S", "T", " ", "e", "x", "a", "m", "p", "l", "e", ".", "c", "o", "m", "/", "f", "o", "o", "/", "{", "w", "}">>, \* `POST example.com/foo/{w}`
      <<"/", "{", "$", "}">>,                                    \* `/{$}`
      <<"D", "E", "L", "E", "T", "E", " ", "e", "x", "a", "m", "p", "l", "e", ".", "c", "o", "m", "/", "a", "/", "{", "f", "o", "o", "1", "2", "}", "/", "{", "$", "}">>, \* `DELETE example.com/a/{foo12}/{$}`
      <<"/", "f", "o", "o", "/", "{", "$", "}">>,                \* `/foo/{$}`
      <<"/", "{", "a", "}", "/", "f", "o", "o", "/", "{", "r", "e", "s", "t", ".", ".", ".", "}">>, \* `/{a}/foo/{rest...}`
      <<"/", "/">>,                                              \* `//`
      <<"/", "f", "o", "o", "/", "/", "/", ".", "/", ".", ".", "/", "b", "a", "r">>, \* `/foo///./../bar`
      <<"a", ".", "c", "o", "m", "/", "f", "o", "o", "/", "/">>, \* `a.com/foo//`
      <<>>,                                                      \* ``
      <<"M", "O", "O", "S", "E", " ", "/">>,                     \* `MOOSE /`
      <<" ">>,                                                   \* ` `
      <<"/", "{", "w", "}", "x">>,                               \* `/{w}x`
      <<"/", "x", "{", "w", "}">>,                               \* `/x{w}`
      <<"/", "{", "w", "x">>,                                    \* `/{wx`
      <<"/", "{", "a", "$", "}">>,                               \* `/{a$}`
      <<"/", "{", "}">>,                                         \* `/{}`
      <<"/", "{", ".", ".", ".", "}">>,                          \* `/{...}`
      <<"/", "{", "$", ".", ".", ".", "}">>,                     \* `/{$...}`
      <<"/", "{", "$", "}", "/">>,                               \* `/{$}/`
      <<"/", "{", "$", "}", "/", "x">>,                          \* `/{$}/x`
      <<"/", "{", "a", ".", ".", ".", "}", "/">>,                \* `/{a...}/`
      <<"/", "{", "a", ".", ".", ".", "}", "/", "x">>,           \* `/{a...}/x`
      <<"{", "a", "}", "/", "b">>,                               \* `{a}/b`
      <<"/", "a", "/", "{", "x", "}", "/", "b", "/", "{", "x", ".", ".", ".", "}">>, \* `/a/{x}/b/{x...}`
      <<"G", "E", "T", " ", "/", "/">>,                          \* `GET //`
      <<"H", "E", "A", "D", " ", "/", "a">>,                     \* `HEAD /a`
      <<"P", "O", "S", "T", " ", "/", "a">>,                     \* `POST /a`
      <<"P", "U", "T", " ", "/", "a">>,                          \* `PUT /a`
      <<"P", "A", "T", "C", "H", " ", "/", "a">>,                \* `PATCH /a`
      <<"D", "E", "L", "E", "T", "E", " ", "/", "a">>,           \* `DELETE /a`
      <<"O", "P", "T", "I", "O", "N", "S", " ", "/", "a">>,      \* `OPTIONS /a`
      <<"T", "R", "A", "C", "E", " ", "/", "a">>,                \* `TRACE /a`
      <<"C", "O", "N", "N", "E", "C", "T", " ", "/", "a">>,      \* `CONNECT /a`
      <<"C", "O", "N", "N", "E", "C", "T", " ", "/", "/", "a">>, \* `CONNECT //a`
      <<"C", "O", "N", "N", "E", "C", "T", " ", "/", "a", "/", ".", ".", "/", "b">>, \* `CONNECT /a/../b`
      <<"g", "e", "t", " ", "/", "a">>,                          \* `get /a`
      <<"G", "E", "T", "/", "a">>,                               \* `GET/a`
      <<"G", "E", "T", "T", " ", "/", "a">>,                     \* `GETT /a`
      <<"G", " ", "/", "a">>,                                    \* `G /a`
      <<"/", "/", "a">>,                                         \* `//a`
      <<"/", "a", "/", "/", "b">>,                               \* `/a//b`
      <<"/", ".", "/", "a">>,                                    \* `/./a`
      <<"/", "a", "/", ".">>,                                    \* `/a/.`
      <<"/", "a", "/", ".", ".">>,                               \* `/a/..`
      <<"/", "a", "/", ".", ".", "/", "b">>,                     \* `/a/../b`
      <<"G", "E", "T", " ", "/", "a", "/", "/", "b">>,           \* `GET /a//b`
      <<"G", "E", "T", " ", "/", ".", "/", "a">>,                \* `GET /./a`
      <<"G", "E", "T", " ", "/", "a", "/", ".">>,                \* `GET /a/.`
      <<"P", "O", "S", "T", " ", "/", "a", "/", ".", ".", "/", "b">>, \* `POST /a/../b`
      <<"H", "E", "A", "D", " ", "h", "/", "/">>,                \* `HEAD h//`
      <<"G", "E", "T", " ", "/", "a", "/", ".", "/">>,           \* `GET /a/./`
      <<"G", "E", "T", " ", "/", "a", "/">>,                     \* `GET /a/`
      <<"G", "E", "T", " ", "/", "a", "/", "b">>,                \* `GET /a/b`
      <<" ", "/", "a">>,                                         \* ` /a`
      <<" ", "/", "a", " ", "b">>,                               \* ` /a b`
      <<"/", "a", " ", "b">>,                                    \* `/a b`
      <<"G", "E", "T", " ", "/", "a", " ", "b">>,                \* `GET /a b`
      <<"G", "E", "T", " ", " ", "/", "a">>,                     \* `GET  /a`
      <<" ", "h", " ", "x", "/", "a">>,                          \* ` h x/a`
      <<"/", "{", "_", "x", "1", "}">>,                          \* `/{_x1}`
      <<"/", "{", "1", "x", "}">>,                               \* `/{1x}`
      <<"/", "{", "x", "}", "/", "{", "y", "}">>,                \* `/{x}/{y}`
      <<"/", "{", "x", "}", "/", "{", "x", "}">>,                \* `/{x}/{x}`
      <<"/", "{", "x", "}", "/", "{", "y", ".", ".", ".", "}">>, \* `/{x}/{y...}`
      <<"/", "{", "x", ".", ".", ".", "}">>,                     \* `/{x...}`
      <<"/", "a", "}">>,                                         \* `/a}`
      <<"h", "{", "/", "a">>,                                    \* `h{/a`
      <<"G", "E", "T", " ", "h", "/", "{", "x", "}", "/">>       \* `GET h/{x}/`
    }

\* The *http.Request values in use.
RequestIds == {"r1", "r2"}

\* The names and values passed to SetPathValue.
SetNames == {<<"a">>, <<"b">>, <<"d">>, <<"x">>}

SetValues == {<<"X">>, <<"Y">>}

Probes ==
    IF scenario = 0
    THEN [method : RequestMethods, host : RequestHosts, path : RequestPaths]
    ELSE ScriptProbes[scenario]

Requests ==
    IF scenario = 0
    THEN [Method : RequestMethods, Host : RequestHosts, URLHost : {<<>>},
          URLPath : RequestPaths]
    ELSE ScriptRequests[scenario]

\* NewServeMux()
Init ==
    /\ tree = newNode
    /\ index = newIndex
    /\ registered = <<>>
    /\ last = [op |-> "new"]
    /\ scenario \in 0..Len(Scripts)
    /\ script = IF scenario = 0 THEN <<>> ELSE Scripts[scenario]
    /\ served = 0
    /\ matches = newMatches
    /\ sets = 0
    /\ call = idleCall
    /\ container = newMapping
    /\ added = <<>>

\* The state after mux.register(text, h) ended as r.
Registered(text, h, r) ==
    /\ tree' = r.tree
    /\ index' = r.index
    /\ registered' = IF r.err = "" /\ r.panic = ""
                     THEN Append(registered, r.pat)
                     ELSE registered
    /\ last' = [op |-> "register", text |-> text, handler |-> h, pat |-> r.pat,
                err |-> r.err, panic |-> r.panic]

\* The effect of mux.register(text, h) on the state.
DoRegister(text, h) == Registered(text, h, register(tree, index, text, h))

\* mux.Handle / mux.register with any pattern text and handler.
Register ==
    /\ scenario = 0
    /\ Len(registered) < MaxPatterns
    /\ \E text \in PatternTexts, h \in {TheHandler, NilHandler} : DoRegister(text, h)
    /\ UNCHANGED <<scenario, script, served, matches, sets, call, container, added>>

\* The next registration of a test.
RegisterNext ==
    /\ scenario # 0
    /\ script # <<>>
    /\ DoRegister(Head(script), TheHandler)
    /\ script' = Tail(script)
    /\ UNCHANGED <<scenario, served, matches, sets, call, container, added>>

\* The record of the call q of match that ended as r.
Matched(q, r) ==
    [op |-> "match", method |-> q.method, host |-> q.host, path |-> q.path,
     found |-> r.node # NilNode,
     pattern |-> IF r.node = NilNode THEN NilPattern ELSE r.node.pattern,
     matches |-> r.matches, panic |-> r.panic]

\* mux.tree.match(method, host, path), as the tree's tests call it.
Match ==
    /\ script = <<>>
    /\ served < MaxRequests
    /\ \E q \in Probes : last' = Matched(q, match(tree, q.method, q.host, q.path))
    /\ served' = served + 1
    /\ UNCHANGED <<tree, index, registered, scenario, script, matches, sets, call, container, added>>

\* mux.handler(r)
Handler ==
    /\ script = <<>>
    /\ served < MaxRequests
    /\ \E r \in Requests :
          last' = [op |-> "handler", req |-> r, resp |-> handler(tree, r)]
    /\ served' = served + 1
    /\ UNCHANGED <<tree, index, registered, scenario, script, matches, sets, call, container, added>>

\* The state after mux.ServeHTTP(w, r) of the request id with the fields r:
\* resp is what mux.handler returned, and the handler found has run.
Served(id, r, resp) ==
    /\ matches' = serveRecorded(matches, id, resp)
    /\ last' = [op |-> "serve", id |-> id, req |-> r, resp |-> resp]

\* mux.ServeHTTP(w, r)
ServeHTTP ==
    /\ scenario # 0
    /\ script = <<>>
    /\ served < MaxRequests
    /\ \E id \in RequestIds, r \in ScriptServes[scenario] :
          Served(id, r, handler(tree, r))
    /\ served' = served + 1
    /\ UNCHANGED <<tree, index, registered, scenario, script, sets, call, container, added>>

\* The state after mux.SetPathValue(r, name, value) ended as s.
PathValueSet(id, name, value, s) ==
    /\ matches' = s.matches
    /\ last' = [op |-> "set", id |-> id, name |-> name, value |-> value,
                panic |-> s.panic]

\* mux.SetPathValue(r, name, value), as a handler or any other code calls it.
SetPathValueCall ==
    /\ scenario # 0
    /\ script = <<>>
    /\ ScriptServes[scenario] # {}
    /\ sets < MaxSets
    /\ \E id \in RequestIds, name \in SetNames, value \in SetValues :
          PathValueSet(id, name, value, SetPathValue(matches, id, name, value))
    /\ sets' = sets + 1
    /\ UNCHANGED <<tree, index, registered, scenario, script, served, call, container, added>>

Next == Register \/ RegisterNext \/ Match \/ Handler \/ ServeHTTP \/ SetPathValueCall

Spec == Init /\ [][Next]_vars

(***************************************************************************)
(* A second specification, for the relations between patterns: two pattern *)
(* texts are drawn from CompareTexts, parsed, and compared.  The mux is    *)
(* not used.                                                               *)
(***************************************************************************)
InitPatterns ==
    /\ tree = newNode
    /\ index = newIndex
    /\ registered = <<>>
    /\ last \in [op : {"texts"}, s1 : CompareTexts, s2 : CompareTexts]
                \cup [op : {"text"}, s : ParseTexts]
    /\ scenario = 0
    /\ script = <<>>
    /\ served = 0
    /\ matches = newMatches
    /\ sets = 0
    /\ call = idleCall
    /\ container = newMapping
    /\ added = <<>>

\* The record of Parse(s1) and Parse(s2) having returned r1 and r2.
Parsed(r1, r2) ==
    IF r1.err = "" /\ r2.err = ""
    THEN [op |-> "parsed", p1 |-> r1.pat, p2 |-> r2.pat]
    ELSE [op |-> "rejected", err1 |-> r1.err, err2 |-> r2.err]

\* Parse of both texts.
ParsePair ==
    /\ last.op = "texts"
    /\ last' = Parsed(Parse(last.s1), Parse(last.s2))
    /\ UNCHANGED <<tree, index, registered, scenario, script, served, matches, sets, call, container, added>>

\* The record of every comparison of p1 with p2 and of p2 with p1.
Compared(p1, p2) ==
    [op |-> "compared", p1 |-> p1, p2 |-> p2,
     paths12 |-> comparePaths(p1, p2), paths21 |-> comparePaths(p2, p1),
     methods12 |-> compareMethods(p1, p2),
     both12 |-> comparePathsAndMethods(p1, p2),
     higher12 |-> HigherPrecedence(p1, p2), higher21 |-> HigherPrecedence(p2, p1),
     conflicts12 |-> ConflictsWith(p1, p2), conflicts21 |-> ConflictsWith(p2, p1)]

\* comparePaths, HigherPrecedence and ConflictsWith on the parsed pair.
Compare ==
    /\ last.op = "parsed"
    /\ last' = Compared(last.p1, last.p2)
    /\ UNCHANGED <<tree, index, registered, scenario, script, served, matches, sets, call, container, added>>

\* The record of Parse(s) having returned r.
ParsedOne(s, r) == [op |-> "parse", s |-> s, err |-> r.err, pat |-> r.pat]

\* Parse of one text.
ParseOne ==
    /\ last.op = "text"
    /\ last' = ParsedOne(last.s, Parse(last.s))
    /\ UNCHANGED <<tree, index, registered, scenario, script, served, matches, sets, call, container, added>>

\* The record of p.String() having returned str, and of Parse(str).
Reparsed(s, p, str) ==
    [op |-> "reparse", s |-> s, pat |-> p, string |-> str, again |-> Parse(str)]

\* Parse(p.String()) of the pattern p that Parse returned.
Reparse ==
    /\ last.op = "parse"
    /\ last.err = ""
    /\ last' = Reparsed(last.s, last.pat, String(last.pat))
    /\ UNCHANGED <<tree, index, registered, scenario, script, served, matches, sets, call, container, added>>

\* The record of the witness paths of p1 and p2, whose paths compare as rel:
\* commonPath(p1, p2) where they overlap, and differencePath(p1, p2).
Described(p1, p2, rel) ==
    [op |-> "described", p1 |-> p1, p2 |-> p2, paths12 |-> rel,
     common |-> IF rel = "overlaps" THEN commonPath(p1, p2) ELSE <<>>,
     difference |-> differencePath(p1, p2)]

\* commonPath and differencePath on the compared pair, where describeRel
\* and the tests call them: the paths overlap, or p1 is more general.
Describe ==
    /\ last.op = "compared"
    /\ last.paths12 \in {"overlaps", "moreGeneral"}
    /\ last' = Described(last.p1, last.p2, last.paths12)
    /\ UNCHANGED <<tree, index, registered, scenario, script, served, matches, sets, call, container, added>>

NextPatterns == ParsePair \/ Compare \/ ParseOne \/ Reparse \/ Describe

SpecPatterns == InitPatterns /\ [][NextPatterns]_vars


(***************************************************************************)
(* A third specification, for a handler call that runs while other         *)
(* goroutines register patterns: the call advances one tree lookup at a    *)
(* time, and register runs whenever the call does not hold the reader      *)
(* lock.                                                                   *)
(***************************************************************************)
LockTexts ==
    {
      <<"/", "a">>,
      <<"/", "a", "/">>,
      <<"G", "E", "T", " ", "/", "a">>,
      <<"P", "O", "S", "T", " ", "/", "a">>,
      <<"/", "b", "/">>
    }

LockRequests ==
    {
      [Method |-> GET, Host |-> <<>>, URLHost |-> <<>>, URLPath |-> <<"/", "a">>],
      [Method |-> POST, Host |-> <<>>, URLHost |-> <<>>, URLPath |-> <<"/", "a">>],
      [Method |-> GET, Host |-> <<>>, URLHost |-> <<>>, URLPath |-> <<"/", "b">>],
      [Method |-> CONNECT, Host |-> <<>>, URLHost |-> <<>>, URLPath |-> <<"/", "a">>]
    }

\* NewServeMux(), no request being served.
InitLocks ==
    /\ tree = newNode
    /\ index = newIndex
    /\ registered = <<>>
    /\ last = [op |-> "new"]
    /\ scenario = 0
    /\ script = <<>>
    /\ served = 0
    /\ matches = newMatches
    /\ sets = 0
    /\ call = idleCall
    /\ container = newMapping
    /\ added = <<>>

\* A goroutine calls mux.handler(r).
CallBegin ==
    /\ call.pc = "idle"
    /\ \E r \in LockRequests : call' = callStart(r)
    /\ UNCHANGED <<tree, index, registered, last, scenario, script, served, matches, sets, container, added>>

\* The call enters matchOrRedirect: RLock and the lookup of path.
CallMatch ==
    /\ call.pc = "match"
    /\ call' = callMatch(call, tree, registered)
    /\ UNCHANGED <<tree, index, registered, last, scenario, script, served, matches, sets, container, added>>

\* The call, still inside matchOrRedirect, looks up path + "/" and returns.
CallSlash ==
    /\ call.pc = "slash"
    /\ call' = callSlash(call, tree, registered)
    /\ UNCHANGED <<tree, index, registered, last, scenario, script, served, matches, sets, container, added>>

\* Another goroutine calls mux.register; it gets the writer lock only while
\* the call does not hold the reader lock.
RegisterDuring ==
    /\ writerMayEnter(call)
    /\ Len(registered) < MaxPatterns
    /\ \E text \in LockTexts : DoRegister(text, TheHandler)
    /\ UNCHANGED <<scenario, script, served, matches, sets, call, container, added>>

NextLocks == CallBegin \/ CallMatch \/ CallSlash \/ RegisterDuring

SpecLocks == InitLocks /\ [][NextLocks]_vars

(***************************************************************************)
(* A fourth specification, for the mapping on its own, as TestMapping uses *)
(* it: pairs are added to a zero mapping, under new keys and under keys    *)
(* that are already present.                                               *)
(***************************************************************************)
\* At most MaxAdds add calls are made in a behaviour.
MaxAdds == 10

\* At most MaxReadds of them are made with a key that is already present.
MaxReadds == 2

\* strconv.Itoa(i), the i-th key of TestMapping.
testKey(i) == <<ToString(i)>>

\* The node of the i-th add call: a pointer distinct from all others.
testNode(i) == [newNode EXCEPT !.handler = ToString(i)]

\* The keys added so far.
addedKeys == {added[i].key : i \in 1..Len(added)}

\* var h mapping
InitMapping ==
    /\ tree = newNode
    /\ index = newIndex
    /\ registered = <<>>
    /\ last = [op |-> "new"]
    /\ scenario = 0
    /\ script = <<>>
    /\ served = 0
    /\ matches = newMatches
    /\ sets = 0
    /\ call = idleCall
    /\ container = newMapping
    /\ added = <<>>

\* The state after h.add(k, v).
Added(k, v) ==
    /\ container' = mappingAdd(container, k, v)
    /\ added' = Append(added, [key |-> k, child |-> v])
    /\ last' = [op |-> "add", key |-> k, child |-> v, present |-> k \in addedKeys]

\* h.add(k, v) with the next key of TestMapping.
AddNew ==
    /\ Len(added) < MaxAdds
    /\ Added(testKey(Cardinality(addedKeys)), testNode(Len(added)))
    /\ UNCHANGED <<tree, index, registered, scenario, script, served, matches, sets, call>>

\* h.add(k, v) with a key that is already present, as the last add of
\* TestMapping is.
AddAgain ==
    /\ Len(added) < MaxAdds
    /\ Len(added) - Cardinality(addedKeys) < MaxReadds
    /\ \E k \in addedKeys : Added(k, testNode(Len(added)))
    /\ UNCHANGED <<tree, index, registered, scenario, script, served, matches, sets, call>>

NextMapping == AddNew \/ AddAgain

SpecMapping == InitMapping /\ [][NextMapping]_vars


(***************************************************************************)
(* Claims.                                                                 *)
(*                                                                         *)
(* The claims speak of a pattern "matching" a request.  That relation is   *)
(* defined here on the parsed pattern and the request alone, without the   *)
(* tree: a literal matches the equal component, a single wildcard one      *)
(* non-empty component, {$} the empty tail after the final slash, a multi  *)
(* wildcard the whole rest of the path.                                    *)
(***************************************************************************)
\* The components of a path that starts with "/": the texts between its
\* slashes; the last one is the (possibly empty) tail after the final slash.
RECURSIVE Components(_)
Components(path) ==
    IF path = <<>> THEN <<>>
    ELSE LET p == Tail(path)
             i == IndexByte(p, "/")
         IN  IF i < 0 THEN <<p>> ELSE <<UpTo(p, i)>> \o Components(From(p, i))

\* The components joined by slashes again.
RECURSIVE JoinComponents(_)
JoinComponents(comps) ==
    IF Len(comps) = 0 THEN <<>>
    ELSE IF Len(comps) = 1 THEN comps[1]
    ELSE comps[1] \o <<"/">> \o JoinComponents(Tail(comps))

\* The segments match the components.
RECURSIVE SegmentsMatch(_, _)
SegmentsMatch(segs, comps) ==
    IF Len(segs) = 0 THEN Len(comps) = 0
    ELSE IF Head(segs).multi THEN Len(comps) > 0
    ELSE IF Len(comps) = 0 THEN FALSE
    ELSE IF Head(segs) = Lit(<<"/">>) THEN comps = << <<>> >>
    ELSE IF Head(segs).wild
    THEN Head(comps) # <<>> /\ SegmentsMatch(Tail(segs), Tail(comps))
    ELSE Head(comps) = Head(segs).s /\ SegmentsMatch(Tail(segs), Tail(comps))

\* The captures of segments that match the components: one per named
\* wildcard, in the pattern's order.
RECURSIVE ExpectedCaptures(_, _)
ExpectedCaptures(segs, comps) ==
    IF Len(segs) = 0 \/ Len(comps) = 0 THEN <<>>
    ELSE IF Head(segs).multi
    THEN (IF Head(segs).s = <<>> THEN <<>> ELSE <<JoinComponents(comps)>>)
    ELSE IF Head(segs).wild
    THEN <<Head(comps)>> \o ExpectedCaptures(Tail(segs), Tail(comps))
    ELSE ExpectedCaptures(Tail(segs), Tail(comps))

\* A pattern's host admits the request's host.
HostMatches(p, host) == p.host = <<>> \/ p.host = host

\* A pattern's method admits the request's method: its own, any when it has
\* none, and HEAD when it is GET.
MethodMatches(p, method) ==
    p.method = <<>> \/ p.method = method \/ (method = HEAD /\ p.method = GET)

PathMatches(p, path) == SegmentsMatch(p.segments, Components(path))

PatternMatches(p, method, host, path) ==
    HostMatches(p, host) /\ MethodMatches(p, method) /\ PathMatches(p, path)

\* The patterns registered so far, as a set.
RegisteredSet == {registered[i] : i \in 1..Len(registered)}

\* The last call was node.match, and it returned a leaf.
Returned == last.op = "match" /\ last.panic = "" /\ last.found /\ last.pattern # NilPattern

\* The pattern a text parses to.
PatternOf(text) == Parse(text).pat

\* C1: register(p) fails with a conflict error if and only if some
\* previously registered pattern q satisfies p.ConflictsWith(q).
C1_RegisterConflictIff ==
    (last.op = "register" /\ last.pat # NilPattern /\ last.panic = "")
    => LET prev == IF last.err = ""
                   THEN SubSeq(registered, 1, Len(registered) - 1)
                   ELSE registered
       IN  (last.err = "conflict")
           <=> (\E i \in 1..Len(prev) : ConflictsWith(last.pat, prev[i]))

\* C2: if the tree matcher returns pattern m, no other registered pattern q
\* matches the request and has HigherPrecedence(q, m).
C2_MatchCorrectness ==
    Returned
    => ~ \E q \in RegisteredSet :
            /\ PatternMatches(q, last.method, last.host, last.path)
            /\ HigherPrecedence(q, last.pattern)

\* The rank of a segment in the matcher's order of preference.
SegmentRank(seg) == IF seg.multi THEN 2 ELSE IF seg.wild THEN 1 ELSE 0

\* q is preferred to m: at the first position where their segments differ
\* in kind, q has the literal where m has a wildcard, or the single wildcard
\* where m has the multi.
Preferred(q, m) ==
    \E i \in 1..Len(q.segments) :
        /\ i <= Len(m.segments)
        /\ SegmentRank(q.segments[i]) < SegmentRank(m.segments[i])
        /\ \A j \in 1..(i - 1) :
              SegmentRank(q.segments[j]) = SegmentRank(m.segments[j])

\* C3: literal before single wildcard before multi wildcard at each level,
\* with backtracking: the pattern returned is the most preferred of the
\* patterns of its host and method that match the path; and the results of
\* the first tree of TestNodeMatch.
C3_LiteralSingleMulti ==
    /\ Returned
       => ~ \E q \in RegisteredSet :
               /\ q.host = last.pattern.host
               /\ q.method = last.pattern.method
               /\ PathMatches(q, last.path)
               /\ Preferred(q, last.pattern)
    /\ (last.op = "match" /\ scenario = 1)
       => /\ last.path = <<"/", "a", "/", "b", "/", "c">>
             => last.pattern = PatternOf(<<"/", "a", "/", "b", "/", "{", "y", "}">>)
          /\ last.path = <<"/", "a", "/", "b", "/", "c", "/", "d">>
             => last.pattern
                = PatternOf(<<"/", "a", "/", "b", "/", "{", "x", ".", ".", ".", "}">>)
          /\ last.path = <<"/", "a", "/", "b", "/">>
             => last.pattern = PatternOf(<<"/", "a", "/", "b", "/", "{", "$", "}">>)
          /\ last.path = <<"/", "g", "/", "h", "/", "j">>
             => last.pattern = PatternOf(<<"/", "g", "/", "{", "x", "}", "/", "j">>)

\* The rank of a pattern's method for a HEAD request.
HeadRank(p) == IF p.method = HEAD THEN 0 ELSE IF p.method = GET THEN 1 ELSE 2

\* C4: for a HEAD request, patterns with method HEAD come first, then
\* patterns with method GET, then method-less patterns: the pattern
\* returned is of the first of these kinds that has a matching pattern for
\* the host, and a matching GET pattern is enough for a result.
C4_HeadThenGet ==
    (last.op = "match" /\ last.method = HEAD)
    => /\ Returned
          => ~ \E q \in RegisteredSet :
                  /\ q.host = last.pattern.host
                  /\ PathMatches(q, last.path)
                  /\ HeadRank(q) < HeadRank(last.pattern)
       /\ (\E q \in RegisteredSet :
              q.method = GET /\ HostMatches(q, last.host) /\ PathMatches(q, last.path))
          => Returned

\* q is in the slot the matcher tries for the method: the method's own
\* child or the method-less one.
InMethodSlot(q, method) == q.method = method \/ q.method = <<>>

\* C5: the child keyed by the request's host (resp. method) is tried first,
\* and the anonymous slot when that subtree yields no match: a host-less
\* (method-less) result means that no pattern keyed by the host (method)
\* matches, and a matching pattern in either slot means a result.
C5_KeyedThenAnonymous ==
    last.op = "match"
    => /\ Returned
          => /\ HostMatches(last.pattern, last.host)
             /\ InMethodSlot(last.pattern, last.method)
             /\ (last.pattern.host = <<>> /\ last.host # <<>>)
                => ~ \E q \in RegisteredSet :
                        /\ q.host = last.host
                        /\ InMethodSlot(q, last.method)
                        /\ PathMatches(q, last.path)
             /\ last.pattern.method = <<>>
                => ~ \E q \in RegisteredSet :
                        /\ q.host = last.pattern.host
                        /\ q.method = last.method
                        /\ PathMatches(q, last.path)
       /\ (\E q \in RegisteredSet :
              /\ HostMatches(q, last.host)
              /\ InMethodSlot(q, last.method)
              /\ PathMatches(q, last.path))
          => Returned

\* C6: the matcher never binds a single wildcard to the empty string or to
\* the trailing-slash anchor: every single wildcard of the pattern returned
\* stands at a non-empty component of the path, and a pattern ending in a
\* single wildcard is returned only for paths with as many components as
\* it has segments.
C6_SingleWildcardNonEmpty ==
    Returned
    => LET segs == last.pattern.segments
           comps == Components(last.path)
       IN  /\ \A i \in 1..Len(segs) :
                 (segs[i].wild /\ ~segs[i].multi)
                 => (i <= Len(comps) /\ comps[i] # <<>>)
           /\ (lastSegment(last.pattern).wild /\ ~lastSegment(last.pattern).multi)
              => Len(comps) = Len(segs)

\* p ends in the end anchor {$}.
EndsInAnchor(p) == lastSegment(p) = Lit(<<"/">>)

\* C7: a pattern ending in {$} matches a path if and only if the path
\* consists of components matching the preceding segments followed by
\* exactly one trailing slash: the matcher returns such a pattern only for
\* such a path, and, when it is the only pattern registered, for every such
\* path.
C7_EndAnchor ==
    last.op = "match"
    => /\ (Returned /\ EndsInAnchor(last.pattern))
          => PathMatches(last.pattern, last.path)
       /\ (Len(registered) = 1 /\ EndsInAnchor(registered[1])
           /\ HostMatches(registered[1], last.host)
           /\ InMethodSlot(registered[1], last.method))
          => (Returned <=> PathMatches(registered[1], last.path))

\* C8: the capture list has exactly one entry per named wildcard of the
\* pattern returned, in the pattern's order (a multi wildcard captures the
\* rest of the path without its leading slash), and none for the anonymous
\* multi wildcard of a trailing-slash pattern.
C8_Captures ==
    Returned
    => last.matches = ExpectedCaptures(last.pattern.segments, Components(last.path))

\* The match of path is an exact one.
ExactlyMatched(method, host, path) ==
    LET r == match(tree, method, host, path)
    IN  /\ r.panic = ""
        /\ r.node # NilNode
        /\ r.node.pattern # NilPattern
        /\ exactMatch(r.node, path).val

\* C9: for a request whose cleaned path does not end in "/", if the match
\* of the path is not exact but the match of path + "/" is, the answer is a
\* redirect to path + "/"; if the match of the path is exact, no redirect
\* is issued.
C9_TrailingSlashRedirect ==
    (last.op = "handler" /\ last.req.Method # CONNECT)
    => LET host == stripHostPort(last.req.Host)
           path == cleanPath(last.req.URLPath)
           method == last.req.Method
       IN  path[Len(path)] # "/"
           => /\ (~ExactlyMatched(method, host, path)
                  /\ ExactlyMatched(method, host, path \o <<"/">>))
                 => (last.resp.kind = "redirect" /\ last.resp.url = path \o <<"/">>)
              /\ (ExactlyMatched(method, host, path) /\ path = last.req.URLPath)
                 => last.resp.kind # "redirect"

\* C10: when no registered pattern matches a request with its own method
\* (the tree finds none for it), the answer is 405 if some registered
\* pattern matches the host and path under a different method and 404
\* otherwise, and the probe never aborts.
C10_MethodNotAllowedOrNotFound ==
    (last.op = "handler" /\ last.req.Method # CONNECT
     /\ last.req.URLPath = cleanPath(last.req.URLPath))
    => LET host == stripHostPort(last.req.Host)
           path == last.req.URLPath
           method == last.req.Method
       IN  (match(tree, method, host, path).node = NilNode
            /\ last.resp.kind # "redirect")
           => /\ last.resp.kind # "panic"
              /\ last.resp.kind
                 = IF \E q \in RegisteredSet :
                         /\ HostMatches(q, host)
                         /\ PathMatches(q, path)
                         /\ q.method \notin {method, <<>>}
                   THEN "methodNotAllowed"
                   ELSE "notFound"


\* c is a cleaned form of the path p: rooted, without ".", ".." or empty
\* elements, ending in a slash exactly when it is "/" or p ends in one, and
\* left alone by another cleaning.
IsCleaned(p, c) ==
    LET comps == Components(c)
    IN  /\ c # <<>> /\ c[1] = "/"
        /\ \A i \in 1..Len(comps) :
              /\ comps[i] \notin {<<".">>, <<".", ".">>}
              /\ (comps[i] = <<>> => i = Len(comps))
        /\ (c[Len(c)] = "/") <=> (c = <<"/">> \/ (p # <<>> /\ p[Len(p)] = "/"))
        /\ cleanPath(c) = c

\* The trailing-slash redirect applies to the request.
TrailingSlashRedirectApplies(method, host, path) ==
    /\ ~ExactlyMatched(method, host, path)
    /\ ExactlyMatched(method, host, path \o <<"/">>)

\* C11: a request other than CONNECT whose URL path differs from its cleaned
\* form, and to which no trailing-slash redirect applies, is answered by a
\* redirect to the cleaned path, never by a registered handler; a CONNECT
\* request is matched on its path as given and its host with the port left
\* in place.
C11_CleanPathRedirect ==
    last.op = "handler"
    => IF last.req.Method # CONNECT
       THEN LET host == stripHostPort(last.req.Host)
                path == cleanPath(last.req.URLPath)
            IN  (path # last.req.URLPath
                 /\ ~TrailingSlashRedirectApplies(last.req.Method, host, path))
                => /\ last.resp.kind = "redirect"
                   /\ last.resp.url = path
                   /\ IsCleaned(last.req.URLPath, path)
       ELSE LET r == match(tree, CONNECT, last.req.Host, last.req.URLPath)
            IN  /\ last.resp.kind = "handler"
                   => (r.node # NilNode /\ last.resp.pattern = r.node.pattern)
                /\ last.resp.kind = "redirect"
                   => last.resp.url = last.req.URLPath \o <<"/">>
                /\ (r.node # NilNode /\ r.node.pattern # NilPattern
                    /\ last.resp.kind # "redirect")
                   => last.resp.kind = "handler"

\* The character an escape %XY of a path stands for, for the escapes that
\* occur in the requests of the model.
Unhex(x, y) ==
    IF x = "2" /\ y \in {"F", "f"} THEN "/"
    ELSE IF x = "2" /\ y = "5" THEN "%"
    ELSE IF x = "2" /\ y = "0" THEN " "
    ELSE "?"

\* The text s with its percent-escapes decoded.
RECURSIVE Unescape(_)
Unescape(s) ==
    IF s = <<>> THEN <<>>
    ELSE IF s[1] = "%" /\ Len(s) >= 3
    THEN <<Unhex(s[2], s[3])>> \o Unescape(SubSeq(s, 4, Len(s)))
    ELSE <<s[1]>> \o Unescape(Tail(s))

\* The names of the named wildcards of a pattern, in the pattern's order.
WildcardNames(p) ==
    LET named == SelectSeq(p.segments, LAMBDA seg : seg.wild /\ seg.s # <<>>)
    IN  [i \in 1..Len(named) |-> named[i].s]

\* The names PathValue is asked for.
ValueNames ==
    {<<"a">>, <<"b">>, <<"c">>, <<"d">>, <<"x">>, <<"y">>,
     <<"n", "a", "m", "e">>, <<"o", "t", "h", "e", "r">>}

\* C12: when ServeHTTP has found the handler of a pattern for a request and
\* that handler runs (SetPathValue not having been called), PathValue(r,
\* name) is, for the name of each wildcard of the pattern, the decoded text
\* of the path the wildcard matched, and the empty string for every other
\* name.
C12_PathValue ==
    (last.op = "serve" /\ last.resp.kind = "handler" /\ sets = 0)
    => LET names == WildcardNames(last.resp.pattern)
           caps == ExpectedCaptures(last.resp.pattern.segments,
                                    Components(last.req.URLPath))
       IN  \A name \in ValueNames :
              LET v == PathValue(matches, last.id, name)
              IN  /\ v.panic = ""
                  /\ v.val = IF \E i \in DOMAIN names : names[i] = name
                             THEN Unescape(caps[CHOOSE i \in DOMAIN names :
                                                    names[i] = name])
                             ELSE <<>>

\* C13: after SetPathValue(r, name, v), PathValue(r, name) is v, whether or
\* not name is a wildcard of the pattern matched for r and whether or not r
\* has a match recorded, and the call changes the value of no other name
\* and of no other request.
C13_SetPathValue ==
    [][(last'.op = "set" /\ sets' = sets + 1)
       => /\ last'.panic = ""
          /\ PathValue(matches', last'.id, last'.name)
             = [val |-> last'.value, panic |-> ""]
          /\ \A id \in RequestIds, name \in ValueNames :
                (id # last'.id \/ name # last'.name)
                => PathValue(matches', id, name) = PathValue(matches, id, name)]_vars

\* C14: a call of register that returns an error (empty pattern, nil
\* handler, parse error, conflict) leaves the tree and the index, and with
\* them the result of every later match, exactly as they were.
C14_FailedRegisterNoEffect ==
    [][(last'.op = "register" /\ last'.err # "")
       => /\ tree' = tree
          /\ index' = index
          /\ registered' = registered
          /\ \A path \in {<<"/", "a">>, <<"/", "a", "/", "b">>} :
                match(tree', GET, <<>>, path) = match(tree, GET, <<>>, path)]_vars

\* A registration has been rejected for a conflict with a registered pattern.
C14_Witness ==
    /\ last.op = "register"
    /\ last.err = "conflict"
    /\ registered # <<>>
    /\ \E i \in 1..Len(registered) : ConflictsWith(last.pat, registered[i])

\* The components paths are made of when patterns are compared: the
\* literals of CompareTexts, one text that is no literal of them, and the
\* empty component.
CompareComponents == {<<"a">>, <<"b">>, <<"c">>, <<"f", "o", "o">>, <<>>}

\* The deepest paths looked at: one component more than the longest pattern
\* of CompareTexts has segments.
MaxDepth == 3

\* The paths looked at, each as the sequence of its components.
ComparePaths ==
    UNION {[1..n -> CompareComponents] : n \in 1..MaxDepth}

\* The paths of ComparePaths that the path of pattern p matches.
MatchedPaths(p) == {comps \in ComparePaths : SegmentsMatch(p.segments, comps)}

\* The relationship of the set A to the set B.
SetRelationship(A, B) ==
    IF A = B THEN "equivalent"
    ELSE IF B \subseteq A THEN "moreGeneral"
    ELSE IF A \subseteq B THEN "moreSpecific"
    ELSE IF A \cap B # {} THEN "overlaps"
    ELSE "disjoint"

\* C15: comparePaths(p1, p2) is the relationship between the set of paths
\* p1 matches and the set of paths p2 matches (equivalent, moreGeneral,
\* moreSpecific, overlaps or disjoint), and comparePaths(p, p) is equivalent.
C15_ComparePathsIsSetRelationship ==
    last.op = "compared"
    => /\ last.paths12 = SetRelationship(MatchedPaths(last.p1), MatchedPaths(last.p2))
       /\ (last.p1 = last.p2 => last.paths12 = "equivalent")

\* C16: comparePaths(a, b) is moreGeneral exactly when comparePaths(b, a) is
\* moreSpecific, and when comparePaths(a, b) is equivalent, overlaps or
\* disjoint, comparePaths(b, a) is the same.
C16_ComparePathsAntiSymmetric ==
    last.op = "compared"
    => /\ (last.paths12 = "moreGeneral") <=> (last.paths21 = "moreSpecific")
       /\ last.paths12 \in {"equivalent", "overlaps", "disjoint"}
          => last.paths21 = last.paths12

\* Two patterns have been compared of which the first is more general, one
\* ending in a multi wildcard the other does not have.
C16_Witness ==
    /\ last.op = "compared"
    /\ last.paths12 = "moreGeneral"
    /\ last.paths21 = "moreSpecific"
    /\ last.p1.segments[Len(last.p1.segments)].multi
    /\ ~last.p2.segments[Len(last.p2.segments)].multi

\* C17: if HigherPrecedence(a, b) or HigherPrecedence(b, a) then a and b do
\* not conflict, and HigherPrecedence(a, b) and HigherPrecedence(b, a) are
\* never both true.
C17_PrecedenceExcludesConflict ==
    last.op = "compared"
    => /\ (last.higher12 \/ last.higher21)
          => (~last.conflicts12 /\ ~last.conflicts21)
       /\ ~(last.higher12 /\ last.higher21)

\* Two patterns have been compared that differ in the host alone: the one
\* with the host has the higher precedence.
C17_Witness ==
    /\ last.op = "compared"
    /\ last.higher12
    /\ last.p1.host # <<>>
    /\ last.p2.host = <<>>
    /\ last.both12 = "equivalent"

\* C18: ConflictsWith(a, b) = ConflictsWith(b, a); `GET /` and `/foo`
\* conflict in both orders, `/` and `GET /foo` in neither.
C18_ConflictsWithCommutes ==
    last.op = "compared"
    => /\ last.conflicts12 = last.conflicts21
       /\ (last.p1 = PatternOf(<<"G", "E", "T", " ", "/">>)
           /\ last.p2 = PatternOf(<<"/", "f", "o", "o">>))
          => (last.conflicts12 /\ last.conflicts21)
       /\ (last.p1 = PatternOf(<<"/">>)
           /\ last.p2 = PatternOf(<<"G", "E", "T", " ", "/", "f", "o", "o">>))
          => (~last.conflicts12 /\ ~last.conflicts21)

\* `/foo` has been compared with `GET /` and conflicts with it.
C18_Witness ==
    /\ last.op = "compared"
    /\ last.p1.method = <<>>
    /\ last.p1.segments = <<Lit(<<"f", "o", "o">>)>>
    /\ last.p2.method = GET
    /\ last.p2.segments = <<Multi(<<>>)>>
    /\ last.conflicts12
    /\ last.conflicts21

\* C19: when register looks a parsed pattern p up in the index, the patterns
\* possiblyConflictingPatterns enumerates include every pattern q added to
\* the index so far with ConflictsWith(p, q), whether p is a dollar
\* pattern, a multi pattern, an ordinary pattern with literals or a pattern
\* of wildcards only.
C19_IndexSound ==
    [][(last'.op = "register" /\ last'.pat # NilPattern)
       => LET cands == possiblyConflictingPatterns(index, last'.pat)
          IN  \A i \in 1..Len(registered) :
                 ConflictsWith(last'.pat, registered[i])
                 => \E j \in 1..Len(cands) : cands[j] = registered[i]]_vars

\* C20: a register call with a pattern that parses and that the conflict
\* check accepts never aborts with "non-nil leaf fields", "dup multi
\* wildcards" or "multi wildcard not last".
C20_InsertionNeverPanics ==
    (last.op = "register" /\ last.pat # NilPattern /\ last.err = "")
    => last.panic \notin {"non-nil leaf fields", "dup multi wildcards",
                          "multi wildcard not last"}


\* The lookups a handler call makes under one acquisition of the reader lock
\* see the same registered patterns.
LookupsOfOneAcquisitionAgree ==
    \A i, j \in 1..Len(call.seen) :
        call.seen[i].acq = call.seen[j].acq
        => call.seen[i].patterns = call.seen[j].patterns

\* A handler call during which no pattern was registered answers as
\* handler does in one step.
QuietCallAnswersAsHandler ==
    (/\ call.pc = "done"
     /\ \A i \in 1..Len(call.seen) : call.seen[i].patterns = registered)
    => call.resp = handler(tree, call.req)

\* C21: every tree lookup made by one handler call sees the same set of
\* registered patterns: no registration takes effect between two lookups of
\* the same handler call.
C21_HandlerSeesOnePatternSet ==
    \A i, j \in 1..Len(call.seen) :
        call.seen[i].patterns = call.seen[j].patterns


\* C22: for every pattern text t that Parse accepts, Parse(Parse(t).String())
\* succeeds and yields a pattern with the same method, host and segments as
\* Parse(t).
C22_RoundTrip ==
    last.op = "reparse"
    => /\ last.again.err = ""
       /\ last.again.pat.method = last.pat.method
       /\ last.again.pat.host = last.pat.host
       /\ last.again.pat.segments = last.pat.segments


\* s is a valid identifier: a letter or "_", then letters, digits and "_".
ValidIdentifier(s) ==
    /\ s # <<>>
    /\ s[1] \in Letters \cup {"_"}
    /\ \A i \in 1..Len(s) : s[i] \in Letters \cup Digits \cup {"_"}

\* The positions of the named wildcards among the segments segs.
NamedWildcards(segs) == {i \in 1..Len(segs) : segs[i].wild /\ segs[i].s # <<>>}

\* The method tokens of the pattern syntax.
MethodTokens == {GET, HEAD, POST, PUT, PATCH, DELETE, OPTIONS, TRACE, CONNECT}

\* The pattern p, parsed from the text s, is in canonical form.
Canonical(s, p) ==
    LET segs == p.segments
        n == Len(segs)
    IN /\ (s[Len(s)] = "/" => n > 0 /\ segs[n] = Multi(<<>>))
       /\ (HasSuffix(s, <<"{", "$", "}">>) => n > 0 /\ segs[n] = Lit(<<"/">>))
       /\ \A i \in 1..n : segs[i].multi => i = n /\ segs[i].wild
       /\ \A i \in 1..n : ~segs[i].wild /\ segs[i].s = <<"/">> => i = n
       /\ \A i \in 1..n : segs[i].wild /\ segs[i].s = <<>> => segs[i].multi
       /\ \A i \in NamedWildcards(segs) : ValidIdentifier(segs[i].s)
       /\ \A i, j \in NamedWildcards(segs) : segs[i].s = segs[j].s => i = j
       /\ \A i \in 1..Len(p.host) : p.host[i] # "{"
       /\ p.method = <<>> \/ p.method \in MethodTokens

TextMethod(s) ==
    IF IndexByte(s, " ") >= 0 THEN UpTo(s, IndexByte(s, " ")) ELSE <<>>

\* The pattern text s without its method.
TextRest(s) ==
    IF IndexByte(s, " ") >= 0 THEN From(s, IndexByte(s, " ") + 1) ELSE s

\* The path of the pattern text s: from the first slash after the method
\* on; empty if there is none.
TextPath(s) ==
    IF IndexByte(TextRest(s), "/") < 0 THEN <<>>
    ELSE From(TextRest(s), IndexByte(TextRest(s), "/"))

\* The pattern text s has a path that is not in cleaned form.
UncleanText(s) == TextPath(s) # <<>> /\ TextPath(s) # cleanPath(TextPath(s))

C25_MethodTokens ==
    last.op = "parse" /\ last.s # <<>>
    => (last.err = "bad method"
        <=> TextMethod(last.s) \notin MethodTokens \cup {<<>>})


\* Every literal segment of segs equals the component of comps at its
\* position ({$} standing for the empty last component).
LiteralsMatch(segs, comps) ==
    \A i \in 1..Len(segs) :
        ~segs[i].wild
        => /\ i <= Len(comps)
           /\ comps[i] = (IF segs[i].s = <<"/">> THEN <<>> ELSE segs[i].s)

\* comps has as many components as segs allows: at least as many as segs
\* has segments when segs ends in a multi wildcard, exactly as many
\* otherwise.
CountMatches(segs, comps) ==
    IF segs # <<>> /\ segs[Len(segs)].multi
    THEN Len(comps) >= Len(segs)
    ELSE Len(comps) = Len(segs)

\* C26: match returns a leaf only if the leaf's pattern matches the request:
\* its method is empty, the request's, or GET for a HEAD request; its host
\* is empty or the request's; every literal segment equals the path
\* component at its position (a literal is never used as a wildcard slot);
\* and the path has as many components as the pattern allows.
C26_ReturnedPatternMatches ==
    Returned
    => /\ MethodMatches(last.pattern, last.method)
       /\ HostMatches(last.pattern, last.host)
       /\ LiteralsMatch(last.pattern.segments, Components(last.path))
       /\ CountMatches(last.pattern.segments, Components(last.path))


\* The children of the node n, each with the key that leads to it (the
\* empty key for emptyChild).
Edges(n) ==
    (IF n.emptyChild = NilNode THEN {}
     ELSE {[key |-> <<>>, child |-> n.emptyChild]})
    \cup (IF n.children = NilMapping THEN {}
          ELSE IF n.children.mnil
          THEN {n.children.s[i] : i \in 1..Len(n.children.s)}
          ELSE {[key |-> k, child |-> n.children.m[k]] : k \in DOMAIN n.children.m})

\* The nodes of the tree below and including n, each as the sequence of keys
\* that leads to it from n and the pattern it holds.
RECURSIVE Nodes(_)
Nodes(n) ==
    {[keys |-> <<>>, pattern |-> n.pattern]}
    \cup UNION {{[keys |-> <<e.key>> \o d.keys, pattern |-> d.pattern] :
                    d \in Nodes(e.child)} : e \in Edges(n)}

\* The leaves: the nodes that hold a pattern.
Leaves(n) == {d \in Nodes(n) : d.pattern # NilPattern}

\* The keys that lead to the leaf of the pattern p: host, method, and for
\* every segment its text, the empty key for a single wildcard, "*" for a
\* multi wildcard.
PatternKeys(p) ==
    <<p.host, p.method>>
    \o [i \in 1..Len(p.segments) |->
           IF p.segments[i].multi THEN <<"*">>
           ELSE IF p.segments[i].wild THEN <<>>
           ELSE p.segments[i].s]

\* The members of a sequence.
Members(seq) == {seq[i] : i \in 1..Len(seq)}

\* The patterns the index idx holds.
IndexPatterns(idx) ==
    Members(idx.multis) \cup UNION {Members(idx.segments[k]) : k \in DOMAIN idx.segments}

\* The pattern p is indexed where index.addPattern files it: in multis if
\* its last segment is a multi wildcard, otherwise in the list of each of
\* its positions.
Indexed(idx, p) ==
    IF lastSegment(p).multi
    THEN p \in Members(idx.multis)
    ELSE /\ p \notin Members(idx.multis)
         /\ \A i \in 1..Len(p.segments) :
               p \in Members(indexLookup(idx,
                        indexKey(i - 1, IF p.segments[i].wild THEN <<>>
                                        ELSE p.segments[i].s)))

\* The sequence s is a prefix of the sequence t.
IsPrefix(s, t) == Len(s) <= Len(t) /\ SubSeq(t, 1, Len(s)) = s

\* The tree and the index hold exactly the registered patterns.
TreeAndIndexAgree ==
    /\ {d.pattern : d \in Leaves(tree)} = RegisteredSet
    /\ \A p \in RegisteredSet :
          {d \in Leaves(tree) : d.pattern = p}
              = {[keys |-> PatternKeys(p), pattern |-> p]}
    /\ IndexPatterns(index) = RegisteredSet
    /\ \A p \in RegisteredSet : Indexed(index, p)

\* No node, no pattern of a node and no index entry is removed by a step.
NothingRemoved ==
    /\ \A d \in Nodes(tree) :
          \E e \in Nodes(tree') :
              e.keys = d.keys /\ (d.pattern # NilPattern => e.pattern = d.pattern)
    /\ IsPrefix(index.multis, index'.multis)
    /\ \A k \in DOMAIN index.segments :
          /\ k \in DOMAIN index'.segments
          /\ IsPrefix(index.segments[k], index'.segments[k])

\* C27: after any sequence of register calls the tree and the index hold the
\* same patterns: each registered pattern is the pattern of exactly one
\* leaf, reached through the keys host, method and its segments, and is in
\* the index (in multis if it ends in a multi wildcard, otherwise in the
\* list of each of its positions); no pattern is in one structure only; and
\* no node or index entry is ever removed.
C27_TreeAndIndexHoldSamePatterns ==
    []TreeAndIndexAgree /\ [][NothingRemoved]_vars

\* register has just added a second pattern; one of the two ends in a multi
\* wildcard, the other has a literal and a single wildcard.
C27_Witness ==
    /\ Len(registered) = 2
    /\ last.op = "register"
    /\ last.err = ""
    /\ last.panic = ""
    /\ \E p \in RegisteredSet : lastSegment(p).multi
    /\ \E p \in RegisteredSet :
          /\ ~lastSegment(p).multi
          /\ \E i \in 1..Len(p.segments) : p.segments[i].wild
          /\ \E i \in 1..Len(p.segments) : ~p.segments[i].wild


\* The values the key k has been added with, in order.
ValuesAdded(k) ==
    SelectSeq([i \in 1..Len(added) |-> added[i]], LAMBDA e : e.key = k)

\* C28: mapping.add(k, v2) on a key k that is already present replaces its
\* value, in array mode as in map mode: afterwards find(k) returns v2 and
\* iteration yields a single pair for k.
C28_AddOverwrites ==
    last.op = "add" /\ last.present
    => /\ mappingFind(container, last.key) = last.child
       /\ mappingKeys(container)[last.key] = 1

C30_WitnessPaths ==
    last.op = "described"
    => /\ last.paths12 = "overlaps"
          => /\ PathMatches(last.p1, last.common)
             /\ PathMatches(last.p2, last.common)
       /\ last.difference.panic = ""
       /\ PathMatches(last.p1, last.difference.path)
       /\ ~PathMatches(last.p2, last.difference.path)

====
